---------------------------- MODULE Spec2Model ----------------------------
(***************************************************************************)
(* gitvibe: the diff chunking and multi-pass summarisation pipeline.       *)
(*                                                                         *)
(* A string is a sequence of one-character strings, so that length,        *)
(* slicing, splitting and trimming are computed character by character as  *)
(* the TypeScript code computes them.                                      *)
(***************************************************************************)
EXTENDS Integers, Sequences, FiniteSets, TLC

VARIABLES
    pc,             \* where the invocation stands
    diff,           \* generateCommitMessage's diff: [text, ctx]
    hasKey,         \* whether ConfigManager.getApiKey yields a key
    chunks,         \* handleLargeDiff: chunks
    next,           \* handleLargeDiff: 1-based index of the chunk the loop is at
    chunkMessages,  \* handleLargeDiff: chunkMessages
    calls,          \* the generateText calls issued so far, in order
    outcome,        \* what generateCommitMessage returned or threw
    arg,            \* the arguments of a function under test
    ret,            \* its return value
    cursor          \* chunkDiffString run step by step: its variable start

vars == <<pc, diff, hasKey, chunks, next, chunkMessages, calls, outcome, arg, ret,
          cursor>>

(***************************************************************************)
(* String primitives of the JavaScript runtime.                            *)
(***************************************************************************)
NL == "\n"

\* the characters String.prototype.trim removes (those of the model's alphabet)
WhiteSpace == {" ", "\n", "\t", "\r"}

\* the line terminators the regular expression '.' does not match
LineTerminators == {"\n", "\r"}

\* s.slice(from, to): 0-based and end-exclusive; a negative index counts
\* from the end, an index past the end is the end
SliceIndex(s, k) ==
    IF k < 0 THEN (IF Len(s) + k < 0 THEN 0 ELSE Len(s) + k)
    ELSE IF k > Len(s) THEN Len(s) ELSE k

Slice(s, from, to) == SubSeq(s, SliceIndex(s, from) + 1, SliceIndex(s, to))

\* s.lastIndexOf(c, from) for a single character c: the last index at or
\* before from that holds c; -1 when there is none; a negative from counts
\* as 0
LastIndexOf(s, c, from) ==
    LET pos == IF from < 0 THEN 0 ELSE from
        at  == {i \in 0..(Len(s) - 1) : i <= pos /\ s[i + 1] = c}
    IN  IF at = {} THEN -1 ELSE CHOOSE i \in at : \A j \in at : j <= i

\* Math.max(a, b)
MathMax(a, b) == IF a >= b THEN a ELSE b

\* s.startsWith(p)
StartsWith(s, p) ==
    /\ Len(p) <= Len(s)
    /\ \A i \in 1..Len(p) : s[i] = p[i]

\* s.startsWith(p, at) with a 0-based position
StartsWithAt(s, p, at) ==
    /\ at + Len(p) <= Len(s)
    /\ \A i \in 1..Len(p) : s[at + i] = p[i]

\* s.indexOf(c) for a single character c; -1 when absent
IndexOf(s, c) ==
    IF \E i \in 1..Len(s) : s[i] = c
    THEN (CHOOSE i \in 1..Len(s) : s[i] = c /\ \A j \in 1..(i - 1) : s[j] # c) - 1
    ELSE -1

\* s.split(c) for a single-character separator: "" splits to [""]
RECURSIVE Split(_, _)
Split(s, c) ==
    LET i == IndexOf(s, c)
    IN  IF i = -1 THEN <<s>>
        ELSE <<Slice(s, 0, i)>> \o Split(Slice(s, i + 1, Len(s)), c)

\* parts.join(sep)
RECURSIVE Join(_, _)
Join(parts, sep) ==
    IF Len(parts) = 0 THEN <<>>
    ELSE IF Len(parts) = 1 THEN parts[1]
    ELSE parts[1] \o sep \o Join(Tail(parts), sep)

\* s.trim()
Trim(s) ==
    IF \A i \in 1..Len(s) : s[i] \in WhiteSpace THEN <<>>
    ELSE LET first == CHOOSE i \in 1..Len(s) :
                         s[i] \notin WhiteSpace /\ \A j \in 1..(i - 1) : s[j] \in WhiteSpace
             last  == CHOOSE i \in 1..Len(s) :
                         s[i] \notin WhiteSpace /\ \A j \in (i + 1)..Len(s) : s[j] \in WhiteSpace
         IN  SubSeq(s, first, last)

(***************************************************************************)
(* GitService.getDiffSummary (core/git/index.ts).                          *)
(***************************************************************************)
DiffGitPrefix == <<"d", "i", "f", "f", " ", "-", "-", "g", "i", "t">>
HeaderHead == <<"d", "i", "f", "f", " ", "-", "-", "g", "i", "t", " ", "a", "/">>
HeaderMid == <<" ", "b", "/">>
NewFileMode == <<"n", "e", "w", " ", "f", "i", "l", "e", " ", "m", "o", "d", "e">>
DeletedFileMode == <<"d", "e", "l", "e", "t", "e", "d", " ", "f", "i", "l", "e", " ", "m", "o", "d", "e">>
HunkMark == <<"@", "@">>
Plus3 == <<"+", "+", "+">>
Minus3 == <<"-", "-", "-">>
Modified == <<"m", "o", "d", "i", "f", "i", "e", "d">>
Added == <<"a", "d", "d", "e", "d">>
Deleted == <<"d", "e", "l", "e", "t", "e", "d">>

\* The places (0-based) where /diff --git a\/(.+) b\/(.+)/ can start in line:
\* the head, a first group of one or more characters, " b/", and at least one
\* more character; '.' matches no line terminator.
HeaderMatchStarts(line) ==
    {i \in 0..Len(line) :
        /\ StartsWithAt(line, HeaderHead, i)
        /\ \E j \in (i + Len(HeaderHead) + 1)..Len(line) :
              /\ StartsWithAt(line, HeaderMid, j)
              /\ j + Len(HeaderMid) < Len(line)
              /\ line[j + Len(HeaderMid) + 1] \notin LineTerminators
              /\ \A k \in (i + Len(HeaderHead) + 1)..j : line[k] \notin LineTerminators}

\* line.match(/diff --git a\/(.+) b\/(.+)/): whether it matches and match[1],
\* the greedy first group of the leftmost match.
HeaderMatch(line) ==
    LET starts == HeaderMatchStarts(line)
    IN  IF starts = {} THEN [matched |-> FALSE, name |-> <<>>]
        ELSE LET i  == CHOOSE x \in starts : \A y \in starts : x <= y
                 p  == i + Len(HeaderHead)
                 js == {j \in (p + 1)..Len(line) :
                          /\ StartsWithAt(line, HeaderMid, j)
                          /\ j + Len(HeaderMid) < Len(line)
                          /\ line[j + Len(HeaderMid) + 1] \notin LineTerminators
                          /\ \A k \in (p + 1)..j : line[k] \notin LineTerminators}
                 j  == CHOOSE x \in js : \A y \in js : y <= x
             IN  [matched |-> TRUE, name |-> Slice(line, p, j)]

NewFile(name) ==
    [filename |-> name, status |-> Modified, additions |-> 0, deletions |-> 0,
     content |-> <<>>]

\* A loop body that counts a removed line as an addition.
SummaryStepMiscount(st, line) ==
    IF StartsWith(line, DiffGitPrefix) THEN
        LET pushed == IF st.cur # 0 THEN Append(st.files, st.cur) ELSE st.files
            m      == HeaderMatch(line)
        IN  IF m.matched
            THEN [objs  |-> Append(st.objs, NewFile(m.name)),
                  files |-> pushed,
                  cur   |-> Len(st.objs) + 1]
            ELSE [st EXCEPT !.files = pushed]
    ELSE IF StartsWith(line, NewFileMode) THEN
        IF st.cur # 0 THEN [st EXCEPT !.objs[st.cur].status = Added] ELSE st
    ELSE IF StartsWith(line, DeletedFileMode) THEN
        IF st.cur # 0 THEN [st EXCEPT !.objs[st.cur].status = Deleted] ELSE st
    ELSE IF StartsWith(line, HunkMark) THEN st
    ELSE IF \/ StartsWith(line, <<"+">>) /\ ~StartsWith(line, Plus3)
            \/ StartsWith(line, <<"-">>) /\ ~StartsWith(line, Minus3) THEN
        IF st.cur # 0
        THEN [st EXCEPT !.objs[st.cur].additions = @ + 1,
                        !.objs[st.cur].content = @ \o line \o <<NL>>]
        ELSE st
    ELSE st

\* One iteration of the loop over the lines.  st.objs are the file objects
\* created so far, st.files the pushed references (indices into objs: the
\* same object can be pushed more than once), st.cur the reference held by
\* currentFile (0 for null).
SummaryStep(st, line) ==
    IF StartsWith(line, DiffGitPrefix) THEN
        LET pushed == IF st.cur # 0 THEN Append(st.files, st.cur) ELSE st.files
            m      == HeaderMatch(line)
        IN  IF m.matched
            THEN [objs  |-> Append(st.objs, NewFile(m.name)),
                  files |-> pushed,
                  cur   |-> Len(st.objs) + 1]
            ELSE [st EXCEPT !.files = pushed]
    ELSE IF StartsWith(line, NewFileMode) THEN
        IF st.cur # 0 THEN [st EXCEPT !.objs[st.cur].status = Added] ELSE st
    ELSE IF StartsWith(line, DeletedFileMode) THEN
        IF st.cur # 0 THEN [st EXCEPT !.objs[st.cur].status = Deleted] ELSE st
    ELSE IF StartsWith(line, HunkMark) THEN st
    ELSE IF StartsWith(line, <<"+">>) /\ ~StartsWith(line, Plus3) THEN
        IF st.cur # 0
        THEN [st EXCEPT !.objs[st.cur].additions = @ + 1,
                        !.objs[st.cur].content = @ \o line \o <<NL>>]
        ELSE st
    ELSE IF StartsWith(line, <<"-">>) /\ ~StartsWith(line, Minus3) THEN
        IF st.cur # 0
        THEN [st EXCEPT !.objs[st.cur].deletions = @ + 1,
                        !.objs[st.cur].content = @ \o line \o <<NL>>]
        ELSE st
    ELSE st

RECURSIVE SummaryLoop(_, _)
SummaryLoop(st, lines) ==
    IF Len(lines) = 0 THEN st
    ELSE SummaryLoop(SummaryStep(st, Head(lines)), Tail(lines))

\* getDiffSummary(diff).files
getDiffSummary(d) ==
    LET st    == SummaryLoop([objs |-> <<>>, files |-> <<>>, cur |-> 0], Split(d, NL))
        files == IF st.cur # 0 THEN Append(st.files, st.cur) ELSE st.files
    IN  [i \in 1..Len(files) |-> st.objs[files[i]]]

(***************************************************************************)
(* GitService.chunkDiff (core/git/index.ts).                               *)
(***************************************************************************)
FileLabel == <<"F", "i", "l", "e", ":", " ">>
StatusLabel == <<"\n", "S", "t", "a", "t", "u", "s", ":", " ">>

\* `File: ${file.filename}\nStatus: ${file.status}\n${file.content}`
FileContent(file) ==
    FileLabel \o file.filename \o StatusLabel \o file.status \o <<NL>> \o file.content

\* The loop that splits one over-budget file block at its line breaks.
RECURSIVE SplitLargeFile(_, _, _, _)
SplitLargeFile(out, tempChunk, lines, maxChunkSize) ==
    IF Len(lines) = 0
    THEN IF Len(tempChunk) > 0 THEN Append(out, Trim(tempChunk)) ELSE out
    ELSE LET line == Head(lines)
         IN  IF Len(tempChunk) + Len(line) > maxChunkSize
             THEN SplitLargeFile(Append(out, Trim(tempChunk)), line \o <<NL>>,
                                 Tail(lines), maxChunkSize)
             ELSE SplitLargeFile(out, tempChunk \o line \o <<NL>>,
                                 Tail(lines), maxChunkSize)

\* A step that compares only the file block with the budget, not the
\* buffer it is added to.
ChunkFileStepNoBufferLength(st, file, maxChunkSize) ==
    LET fileContent == FileContent(file)
    IN  IF Len(fileContent) > maxChunkSize
        THEN LET flushed == IF Len(st.currentChunk) > 0
                            THEN Append(st.chunks, Trim(st.currentChunk))
                            ELSE st.chunks
             IN  [chunks |-> SplitLargeFile(flushed, <<>>,
                                            Split(fileContent, NL), maxChunkSize),
                  currentChunk |-> <<>>]
        ELSE [st EXCEPT !.currentChunk = @ \o fileContent \o <<NL>>]

\* One iteration of the loop over the files: st.chunks and st.currentChunk.
ChunkFileStep(st, file, maxChunkSize) ==
    LET fileContent == FileContent(file)
    IN  IF Len(st.currentChunk) + Len(fileContent) > maxChunkSize
        THEN LET flushed == IF Len(st.currentChunk) > 0
                            THEN Append(st.chunks, Trim(st.currentChunk))
                            ELSE st.chunks
             IN  IF Len(fileContent) > maxChunkSize
                 THEN [chunks |-> SplitLargeFile(flushed, <<>>,
                                                 Split(fileContent, NL), maxChunkSize),
                       currentChunk |-> <<>>]
                 ELSE [chunks |-> flushed, currentChunk |-> fileContent]
        ELSE [st EXCEPT !.currentChunk = @ \o fileContent \o <<NL>>]

RECURSIVE ChunkFilesLoop(_, _, _)
ChunkFilesLoop(st, files, maxChunkSize) ==
    IF Len(files) = 0 THEN st
    ELSE ChunkFilesLoop(ChunkFileStep(st, Head(files), maxChunkSize),
                        Tail(files), maxChunkSize)

\* A chunkDiff that pushes the last chunk as it stands, without trim().
chunkDiffNoTrim(d, maxChunkSize) ==
    LET st == ChunkFilesLoop([chunks |-> <<>>, currentChunk |-> <<>>],
                             getDiffSummary(d), maxChunkSize)
    IN  IF Len(st.currentChunk) > 0
        THEN Append(st.chunks, st.currentChunk)
        ELSE st.chunks

\* chunkDiff(diff, maxChunkSize)
chunkDiff(d, maxChunkSize) ==
    LET st == ChunkFilesLoop([chunks |-> <<>>, currentChunk |-> <<>>],
                             getDiffSummary(d), maxChunkSize)
    IN  IF Len(st.currentChunk) > 0
        THEN Append(st.chunks, Trim(st.currentChunk))
        ELSE st.chunks

(***************************************************************************)
(* JSON.parse and CommitMessageSchema (core/ai/index.ts).                  *)
(*                                                                         *)
(* A parsed value is a record [t, s, keys, items]: t its type, s the text  *)
(* of a string or literal, items the elements of an array or the member    *)
(* values of an object, keys the member names of an object.  The parser    *)
(* covers objects, arrays, strings without escape sequences, integers and  *)
(* the three literals; the reply texts of the model stay inside that       *)
(* grammar or outside JSON altogether.                                     *)
(***************************************************************************)
JsonWhiteSpace == {" ", "\n", "\t", "\r"}
Digits == {"0", "1", "2", "3", "4", "5", "6", "7", "8", "9"}
LitTrue == <<"t", "r", "u", "e">>
LitFalse == <<"f", "a", "l", "s", "e">>
LitNull == <<"n", "u", "l", "l">>

JsonValue(t, s, keys, items) == [t |-> t, s |-> s, keys |-> keys, items |-> items]
JsonFail(pos) == [ok |-> FALSE, v |-> JsonValue("none", <<>>, <<>>, <<>>), pos |-> pos]
JsonOk(v, pos) == [ok |-> TRUE, v |-> v, pos |-> pos]

\* the first position at or after pos (1-based) that holds no white space
RECURSIVE SkipWs(_, _)
SkipWs(s, pos) ==
    IF pos <= Len(s) /\ s[pos] \in JsonWhiteSpace THEN SkipWs(s, pos + 1) ELSE pos

\* the position of the quote closing a string whose first character is at
\* pos; 0 when the string is not closed or holds a control character or a
\* backslash
RECURSIVE StringEnd(_, _)
StringEnd(s, pos) ==
    IF pos > Len(s) THEN 0
    ELSE IF s[pos] = "\"" THEN pos
    ELSE IF s[pos] \in {"\n", "\t", "\r", "\\"} THEN 0
    ELSE StringEnd(s, pos + 1)

\* the position after the digits that start at pos
RECURSIVE DigitsEnd(_, _)
DigitsEnd(s, pos) ==
    IF pos <= Len(s) /\ s[pos] \in Digits THEN DigitsEnd(s, pos + 1) ELSE pos

ParseString(s, pos) ==
    LET e == StringEnd(s, pos + 1)
    IN  IF e = 0 THEN JsonFail(pos)
        ELSE JsonOk(JsonValue("string", SubSeq(s, pos + 1, e - 1), <<>>, <<>>), e + 1)

ParseNumber(s, pos) ==
    LET d == IF s[pos] = "-" THEN pos + 1 ELSE pos
        e == DigitsEnd(s, d)
    IN  IF e = d \/ (s[d] = "0" /\ e > d + 1) THEN JsonFail(pos)
        ELSE JsonOk(JsonValue("number", SubSeq(s, pos, e - 1), <<>>, <<>>), e)

ParseLiteral(s, pos, lit, t) ==
    IF StartsWithAt(s, lit, pos - 1)
    THEN JsonOk(JsonValue(t, lit, <<>>, <<>>), pos + Len(lit))
    ELSE JsonFail(pos)

RECURSIVE ParseValue(_, _)
RECURSIVE ParseElements(_, _, _)
RECURSIVE ParseMembers(_, _, _, _)

\* the elements of an array after its '[' or after a ',': pos is at the
\* first character of the next element
ParseElements(s, pos, items) ==
    LET r == ParseValue(s, pos)
        q == SkipWs(s, r.pos)
    IN  IF ~r.ok \/ q > Len(s) THEN JsonFail(pos)
        ELSE IF s[q] = "," THEN ParseElements(s, SkipWs(s, q + 1), Append(items, r.v))
        ELSE IF s[q] = "]"
             THEN JsonOk(JsonValue("array", <<>>, <<>>, Append(items, r.v)), q + 1)
        ELSE JsonFail(pos)

\* the members of an object after its '{' or after a ',': pos is at the
\* quote opening the next member name
ParseMembers(s, pos, keys, items) ==
    IF pos > Len(s) \/ s[pos] # "\"" THEN JsonFail(pos)
    ELSE LET k == ParseString(s, pos)
             c == SkipWs(s, k.pos)
         IN  IF ~k.ok \/ c > Len(s) \/ s[c] # ":" THEN JsonFail(pos)
             ELSE LET r == ParseValue(s, SkipWs(s, c + 1))
                      q == SkipWs(s, r.pos)
                  IN  IF ~r.ok \/ q > Len(s) THEN JsonFail(pos)
                      ELSE IF s[q] = ","
                           THEN ParseMembers(s, SkipWs(s, q + 1),
                                             Append(keys, k.v.s), Append(items, r.v))
                      ELSE IF s[q] = "}"
                           THEN JsonOk(JsonValue("object", <<>>, Append(keys, k.v.s),
                                                 Append(items, r.v)), q + 1)
                      ELSE JsonFail(pos)

ParseValue(s, pos) ==
    IF pos > Len(s) THEN JsonFail(pos)
    ELSE IF s[pos] = "\"" THEN ParseString(s, pos)
    ELSE IF s[pos] = "[" THEN
        LET q == SkipWs(s, pos + 1)
        IN  IF q <= Len(s) /\ s[q] = "]"
            THEN JsonOk(JsonValue("array", <<>>, <<>>, <<>>), q + 1)
            ELSE ParseElements(s, q, <<>>)
    ELSE IF s[pos] = "{" THEN
        LET q == SkipWs(s, pos + 1)
        IN  IF q <= Len(s) /\ s[q] = "}"
            THEN JsonOk(JsonValue("object", <<>>, <<>>, <<>>), q + 1)
            ELSE ParseMembers(s, q, <<>>, <<>>)
    ELSE IF s[pos] = "t" THEN ParseLiteral(s, pos, LitTrue, "boolean")
    ELSE IF s[pos] = "f" THEN ParseLiteral(s, pos, LitFalse, "boolean")
    ELSE IF s[pos] = "n" THEN ParseLiteral(s, pos, LitNull, "null")
    ELSE IF s[pos] = "-" \/ s[pos] \in Digits THEN ParseNumber(s, pos)
    ELSE JsonFail(pos)

\* JSON.parse(text): ok is FALSE where JSON.parse throws a SyntaxError
JSONparse(text) ==
    LET r == ParseValue(text, SkipWs(text, 1))
    IN  IF r.ok /\ SkipWs(text, r.pos) = Len(text) + 1 THEN r ELSE JsonFail(1)

ResultsKey == <<"r", "e", "s", "u", "l", "t", "s">>

\* value.results of a parsed object: the last member of that name
ResultsMember(v) ==
    LET at == {i \in 1..Len(v.keys) : v.keys[i] = ResultsKey}
    IN  v.items[CHOOSE i \in at : \A j \in at : j <= i]

\* CommitMessageSchema.safeParse(value).success, for
\* z.object({ results: z.array(z.string()).min(1) })
SchemaSuccess(v) ==
    /\ v.t = "object"
    /\ \E i \in 1..Len(v.keys) : v.keys[i] = ResultsKey
    /\ LET r == ResultsMember(v)
       IN  /\ r.t = "array"
           /\ Len(r.items) >= 1
           /\ \A i \in 1..Len(r.items) : r.items[i].t = "string"

\* the strings of value.results, for a value the schema accepts
ResultsOf(v) ==
    LET r == ResultsMember(v)
    IN  [i \in 1..Len(r.items) |-> r.items[i].s]

(***************************************************************************)
(* AIService (core/ai/index.ts): generateCommitMessage, handleLargeDiff    *)
(* and handleSmallDiff.  Every await of generateText is a step of its own: *)
(* the call is issued, and later returns a text or throws.                 *)
(***************************************************************************)

\* diff.length < 50 * 1000
SmallDiffLimit == 50000

\* The budget chunkDiff(diff) runs with.  The code's default is 4000
\* characters; the model scales it down so that diffs of a few short files
\* split the way diffs of a few thousand lines do.
MaxChunkSize == 40

\* the number of files of the largest diff
MaxFiles == 3

\* The character U+0060, which a TLA+ string literal cannot hold.
Backtick == "BACKTICK"

\* Texts a model can reply with.
ReplyOne == <<"{", "\"", "r", "e", "s", "u", "l", "t", "s", "\"", ":", "[", "\"", "a", "\"", "]", "}">>
ReplyTwo == <<"{", "\"", "r", "e", "s", "u", "l", "t", "s", "\"", ":", "[", "\"", "b", "\"", ",", "\"", "c", "\"", "]", "}">>
ReplyPadded == <<" ", "{", "\"", "r", "e", "s", "u", "l", "t", "s", "\"", ":", "[", "\"", "d", "\"", "]", "}", "\n">>
ReplyFenced == <<Backtick, Backtick, Backtick, "j", "s", "o", "n", "\n", "{", "\"", "r", "e", "s", "u", "l", "t", "s", "\"", ":", "[", "\"", "a", "\"", "]", "}", "\n", Backtick, Backtick, Backtick>>
ReplyProse == <<"o", "k", ":", " ", "{", "\"", "r", "e", "s", "u", "l", "t", "s", "\"", ":", "[", "\"", "a", "\"", "]", "}">>
ReplyEmpty == <<"{", "\"", "r", "e", "s", "u", "l", "t", "s", "\"", ":", "[", "]", "}">>
ReplyText == <<"f", "i", "x", ":", " ", "x">>

Replies == {ReplyOne, ReplyTwo, ReplyPadded, ReplyFenced, ReplyProse, ReplyEmpty, ReplyText}

\* Diff texts: "test diff" (what testConnection sends: no file), or n files
\* of one changed line each.
TestDiff == <<"t", "e", "s", "t", " ", "d", "i", "f", "f">>
FileNames == <<"x", "y", "z", "w", "v">>
ChangeLines == << <<"+", "a">>, <<"-", "b">>, <<"+", "c">>, <<"-", "d">>, <<"+", "e">> >>

RECURSIVE FilesDiff(_)
FilesDiff(n) ==
    IF n = 0 THEN <<>>
    ELSE FilesDiff(n - 1) \o HeaderHead \o <<FileNames[n]>> \o HeaderMid
         \o <<FileNames[n], NL>> \o ChangeLines[n] \o <<NL>>

DiffTexts == {TestDiff} \cup {FilesDiff(n) : n \in 1..MaxFiles}

\* A diff is its text followed by ctx more characters: a line break and
\* context lines (lines that start with a space), which getDiffSummary
\* passes over.  ctx brings the length to the limit of 50,000 and just
\* below it.
Diffs ==
    UNION {{[text |-> txt, ctx |-> c] :
               c \in {0, SmallDiffLimit - 1 - Len(txt), SmallDiffLimit - Len(txt)}} :
           txt \in DiffTexts}

\* diff.length
DiffLength(d) == Len(d.text) + d.ctx

NoOutcome == [status |-> "none", variations |-> <<>>, error |-> "none"]
Returned(variations) == [status |-> "ok", variations |-> variations, error |-> "none"]
Threw(message) == [status |-> "error", variations |-> <<>>, error |-> message]

Call(kind, value) == [kind |-> kind, arg |-> value, state |-> "pending", reply |-> <<>>]

\* the call generateText was last invoked for, settled
Settle(cs, state, text) ==
    [cs EXCEPT ![Len(cs)].state = state, ![Len(cs)].reply = text]

\* handleLargeDiff, the try block of the loop: what chunkMessages holds
\* after the reply to one chunk
CollectChunk(msgs, text) ==
    LET r == JSONparse(text)
    IN  IF ~r.ok THEN msgs
        ELSE IF SchemaSuccess(r.v) THEN (msgs \o ResultsOf(r.v)) \o <<Trim(text)>>
        ELSE Append(msgs, Trim(text))

Bullet == <<"-", " ">>

\* chunkMessages.map((msg) => `- ${msg}`).join("\n")
MergeMessages(msgs) ==
    Join([i \in 1..Len(msgs) |-> Bullet \o msgs[i]], <<NL>>)

\* The final try block of handleLargeDiff and of handleSmallDiff, followed
\* by generateCommitMessage's own safeParse: the outcome of the invocation.
FinalResult(text, message) ==
    LET r == JSONparse(text)
    IN  IF r.ok /\ SchemaSuccess(r.v) THEN Returned(ResultsOf(r.v)) ELSE Threw(message)

\* A merge pass that returns what the chunks gave instead of its own reply.
LargeResultFromChunks(text) == Returned(chunkMessages)

\* A merge pass that falls back to the raw text the way the chunk loop does.
LargeResultWithFallback(text) ==
    LET r == JSONparse(text)
    IN  IF r.ok /\ SchemaSuccess(r.v) THEN Returned(ResultsOf(r.v))
        ELSE Returned(<<Trim(text)>>)

LargeResult(text) == FinalResult(text, "Failed to parse final commit message JSON.")
SmallResult(text) == FinalResult(text, "Failed to parse commit message JSON.")

PipelineInit ==
    /\ pc = "start"
    /\ diff \in Diffs
    /\ hasKey \in BOOLEAN
    /\ chunks = <<>>
    /\ next = 1
    /\ chunkMessages = <<>>
    /\ calls = <<>>
    /\ outcome = NoOutcome
    /\ cursor = 0
    /\ arg = <<>>
    /\ ret = <<>>

\* isSmallDif
IsSmallDif(d) == DiffLength(d) < SmallDiffLimit

\* generateCommitMessage up to the branch, and the first line of
\* handleLargeDiff
GenerateCommitMessage ==
    /\ pc = "start"
    /\ IF ~hasKey
       THEN /\ pc' = "failed"
            /\ outcome' = Threw("API key not found for provider")
            /\ UNCHANGED chunks
       ELSE IF IsSmallDif(diff)
       THEN /\ pc' = "chunkLoop"
            /\ chunks' = chunkDiff(diff.text, MaxChunkSize)
            /\ UNCHANGED outcome
       ELSE /\ pc' = "smallDiff"
            /\ UNCHANGED <<chunks, outcome>>
    /\ UNCHANGED <<diff, hasKey, next, chunkMessages, calls, arg, ret, cursor>>

\* handleLargeDiff: generateText for the chunk the loop is at
ChunkCall ==
    /\ pc = "chunkLoop"
    /\ next <= Len(chunks)
    /\ calls' = Append(calls, Call("chunk", chunks[next]))
    /\ pc' = "awaitChunk"
    /\ UNCHANGED <<diff, hasKey, chunks, next, chunkMessages, outcome, arg, ret, cursor>>

\* ... returns a text
ChunkReply ==
    /\ pc = "awaitChunk"
    /\ \E text \in Replies :
          /\ calls' = Settle(calls, "returned", text)
          /\ chunkMessages' = CollectChunk(chunkMessages, text)
    /\ next' = next + 1
    /\ pc' = "chunkLoop"
    /\ UNCHANGED <<diff, hasKey, chunks, outcome, arg, ret, cursor>>

\* ... throws: nothing in handleLargeDiff or generateCommitMessage catches it
ChunkError ==
    /\ pc = "awaitChunk"
    /\ calls' = Settle(calls, "threw", <<>>)
    /\ outcome' = Threw("provider error")
    /\ pc' = "failed"
    /\ UNCHANGED <<diff, hasKey, chunks, next, chunkMessages, arg, ret, cursor>>

\* A merge call that does not wait for the loop to end.
MergeCallEarly ==
    /\ pc = "chunkLoop"
    /\ calls' = Append(calls, Call("merge", MergeMessages(chunkMessages)))
    /\ pc' = "awaitMerge"
    /\ UNCHANGED <<diff, hasKey, chunks, next, chunkMessages, outcome, arg, ret, cursor>>

\* handleLargeDiff: generateText for the merge prompt, after the loop
MergeCall ==
    /\ pc = "chunkLoop"
    /\ next > Len(chunks)
    /\ calls' = Append(calls, Call("merge", MergeMessages(chunkMessages)))
    /\ pc' = "awaitMerge"
    /\ UNCHANGED <<diff, hasKey, chunks, next, chunkMessages, outcome, arg, ret, cursor>>

MergeReply ==
    /\ pc = "awaitMerge"
    /\ \E text \in Replies :
          /\ calls' = Settle(calls, "returned", text)
          /\ outcome' = LargeResult(text)
    /\ pc' = IF outcome'.status = "ok" THEN "done" ELSE "failed"
    /\ UNCHANGED <<diff, hasKey, chunks, next, chunkMessages, arg, ret, cursor>>

MergeError ==
    /\ pc = "awaitMerge"
    /\ calls' = Settle(calls, "threw", <<>>)
    /\ outcome' = Threw("provider error")
    /\ pc' = "failed"
    /\ UNCHANGED <<diff, hasKey, chunks, next, chunkMessages, arg, ret, cursor>>

\* handleSmallDiff: generateText for the whole diff
SmallCall ==
    /\ pc = "smallDiff"
    /\ calls' = Append(calls, Call("small", diff.text))
    /\ pc' = "awaitSmall"
    /\ UNCHANGED <<diff, hasKey, chunks, next, chunkMessages, outcome, arg, ret, cursor>>

SmallReply ==
    /\ pc = "awaitSmall"
    /\ \E text \in Replies :
          /\ calls' = Settle(calls, "returned", text)
          /\ outcome' = SmallResult(text)
    /\ pc' = IF outcome'.status = "ok" THEN "done" ELSE "failed"
    /\ UNCHANGED <<diff, hasKey, chunks, next, chunkMessages, arg, ret, cursor>>

SmallError ==
    /\ pc = "awaitSmall"
    /\ calls' = Settle(calls, "threw", <<>>)
    /\ outcome' = Threw("provider error")
    /\ pc' = "failed"
    /\ UNCHANGED <<diff, hasKey, chunks, next, chunkMessages, arg, ret, cursor>>

Next ==
    \/ GenerateCommitMessage
    \/ ChunkCall
    \/ ChunkReply
    \/ ChunkError
    \/ MergeCall
    \/ MergeReply
    \/ MergeError
    \/ SmallCall
    \/ SmallReply
    \/ SmallError

Spec == PipelineInit /\ [][Next]_vars

(***************************************************************************)
(* Properties of the commit pipeline.                                      *)
(***************************************************************************)

\* the reply is the structured output {results: [string, ...]}
ValidReply(text) ==
    LET r == JSONparse(text) IN r.ok /\ SchemaSuccess(r.v)

ReplyResults(text) == ResultsOf(JSONparse(text).v)

\* the reply holds the structured output between other text (a code fence,
\* a sentence before or after it)
WrappedReply(text) ==
    /\ ~ValidReply(text)
    /\ \E a \in 1..Len(text) : \E b \in a..Len(text) :
          /\ text[a] = "{"
          /\ text[b] = "}"
          /\ ValidReply(SubSeq(text, a, b))

\* the results of the first n calls' replies, in call order
RECURSIVE PartialResults(_)
PartialResults(n) ==
    IF n = 0 THEN <<>> ELSE PartialResults(n - 1) \o ReplyResults(calls[n].reply)

Finished == pc \in {"done", "failed"}

AllRepliesValid ==
    \A i \in 1..Len(calls) : calls[i].state = "returned" /\ ValidReply(calls[i].reply)

\* C1: when handleLargeDiff splits the diff into k >= 1 chunks and every
\* reply is the structured output, the invocation ends after exactly k + 1
\* calls, the k chunk calls in chunk order and then the merge call, and
\* returns the results of the merge reply.
C1_LargeDiffCallsAndResult ==
    (Finished /\ Len(chunks) >= 1 /\ AllRepliesValid)
        => /\ Len(calls) = Len(chunks) + 1
           /\ \A i \in 1..Len(chunks) :
                 calls[i].kind = "chunk" /\ calls[i].arg = chunks[i]
           /\ calls[Len(calls)].kind = "merge"
           /\ outcome = Returned(ReplyResults(calls[Len(calls)].reply))

\* three chunks, four valid replies, and a result that differs from what
\* the chunks gave
C1_Witness ==
    /\ pc = "done"
    /\ Len(chunks) = 3
    /\ Len(calls) = 4
    /\ AllRepliesValid
    /\ outcome.variations # PartialResults(3)
    /\ outcome.variations # chunkMessages

\* C2: a diff shorter than 50,000 characters is answered by exactly one
\* generation call, whose parsed results are returned.
C2_SmallDiffSingleCall ==
    (outcome.status = "ok" /\ DiffLength(diff) < SmallDiffLimit)
        => /\ Len(calls) = 1
           /\ outcome.variations = ReplyResults(calls[1].reply)

\* C3: at the merge call, every chunk whose reply was not the structured
\* output is represented in the merge input by its raw reply text.
C3_FailedChunkKeepsRawText ==
    \A j \in 1..Len(calls) :
        calls[j].kind = "merge" =>
            \A i \in 1..(j - 1) :
                (calls[i].kind = "chunk" /\ calls[i].state = "returned"
                    /\ ~ValidReply(calls[i].reply))
                => \E m \in 1..Len(chunkMessages) :
                      chunkMessages[m] \in {calls[i].reply, Trim(calls[i].reply)}

\* C4: a merge reply that is not the structured output makes the invocation
\* throw: no result, no fallback, and no generation call after it.
C4_MergeParseFailureIsFatal ==
    \A j \in 1..Len(calls) :
        (calls[j].kind = "merge" /\ calls[j].state = "returned"
            /\ ~ValidReply(calls[j].reply))
        => /\ j = Len(calls)
           /\ pc = "failed"
           /\ outcome = Threw("Failed to parse final commit message JSON.")

C4_Witness ==
    /\ pc = "failed"
    /\ Len(chunks) = 2
    /\ Len(calls) = 3
    /\ calls[3].kind = "merge"
    /\ calls[3].state = "returned"
    /\ calls[3].reply = ReplyFenced
    /\ ValidReply(calls[1].reply)

\* C5: a chunk call that fails with a provider error does not abort the
\* invocation.
C5_ChunkProviderErrorRecovered ==
    \A i \in 1..Len(calls) :
        (calls[i].kind = "chunk" /\ calls[i].state = "threw")
        => (pc # "failed" /\ outcome.status # "error")

\* C6: the merge call is issued only after a call for every chunk has been
\* issued and has returned.
C6_MergeAfterAllChunks ==
    \A j \in 1..Len(calls) :
        calls[j].kind = "merge"
        => /\ j = Len(chunks) + 1
           /\ \A i \in 1..Len(chunks) :
                 /\ calls[i].kind = "chunk"
                 /\ calls[i].arg = chunks[i]
                 /\ calls[i].state = "returned"

C6_Witness ==
    /\ pc = "awaitMerge"
    /\ Len(chunks) = 3
    /\ calls[Len(calls)].kind = "merge"
    /\ calls[Len(calls)].state = "pending"

\* C7: when every chunk reply is the structured output, the {messages}
\* value of the merge prompt is one "- " bullet line per entry of the
\* chunks' results arrays, in chunk order, each once.
C7_MergeMessagesAreTheResults ==
    \A j \in 1..Len(calls) :
        (calls[j].kind = "merge"
            /\ \A i \in 1..(j - 1) :
                  calls[i].state = "returned" /\ ValidReply(calls[i].reply))
        => calls[j].arg = MergeMessages(PartialResults(j - 1))

\* C8: a reply of handleSmallDiff or of the merge pass that holds the
\* structured output inside a code fence or between prose is accepted.
C8_WrappedReplyAccepted ==
    \A j \in 1..Len(calls) :
        (calls[j].kind \in {"small", "merge"} /\ calls[j].state = "returned"
            /\ WrappedReply(calls[j].reply))
        => outcome.status = "ok"

(***************************************************************************)
(* GitService.chunkDiff as a function of its arguments.                    *)
(***************************************************************************)

\* the lines a diff under test is made of
HeaderX == HeaderHead \o <<"x">> \o HeaderMid \o <<"x">>
HeaderNoMatch == DiffGitPrefix \o <<" ", "x">>
LineAdd == <<"+", "a">>
LineDel == <<"-", "b", " ">>
LineLong == <<"+", "c", "c", "c", "c", "c", "c", "c", "c", "c", "c", "c", "c", "c", "c", "c", "c">>

DiffLines == {HeaderX, HeaderNoMatch, LineAdd, LineDel, LineLong}

\* the number of lines of the longest diff under test
MaxDiffLines == 4

\* the largest maxChunkSize under test
MaxBudget == 52

RECURSIVE LineSeqs(_)
LineSeqs(n) ==
    IF n = 0 THEN {<<>>}
    ELSE LET shorter == LineSeqs(n - 1)
         IN  shorter \cup {Append(ls, l) : ls \in {x \in shorter : Len(x) = n - 1},
                                           l \in DiffLines}

\* the diffs under test: up to MaxDiffLines lines joined by line breaks;
\* as in git's output, a diff of more than two lines starts with a header
TestDiffs ==
    {Join(ls, <<NL>>) :
        ls \in {x \in LineSeqs(MaxDiffLines) :
                  Len(x) <= 2 \/ StartsWith(x[1], DiffGitPrefix)}}

ChunkDiffInit ==
    /\ pc = "chunkDiff"
    /\ \E d \in TestDiffs, m \in 1..MaxBudget : arg = [diff |-> d, maxChunkSize |-> m]
    /\ ret = <<>>
    /\ diff = [text |-> <<>>, ctx |-> 0]
    /\ hasKey = FALSE
    /\ chunks = <<>>
    /\ next = 1
    /\ chunkMessages = <<>>
    /\ calls = <<>>
    /\ outcome = NoOutcome
    /\ cursor = 0

RunChunkDiff ==
    /\ pc = "chunkDiff"
    /\ ret' = chunkDiff(arg.diff, arg.maxChunkSize)
    /\ pc' = "returned"
    /\ UNCHANGED <<diff, hasKey, chunks, next, chunkMessages, calls, outcome, arg, cursor>>

SpecChunkDiff == ChunkDiffInit /\ [][RunChunkDiff]_vars

\* the lines of the strings of a sequence, in order, each trimmed, the
\* empty ones left out
RECURSIVE TrimmedLines(_)
TrimmedLines(strs) ==
    IF Len(strs) = 0 THEN <<>>
    ELSE LET ls == Split(Head(strs), NL)
         IN  SelectSeq([i \in 1..Len(ls) |-> Trim(ls[i])], LAMBDA l : Len(l) > 0)
             \o TrimmedLines(Tail(strs))

\* the file blocks chunkDiff packs
FileBlocks(d) ==
    LET files == getDiffSummary(d) IN [i \in 1..Len(files) |-> FileContent(files[i])]

IsSingleLine(s) == \A i \in 1..Len(s) : s[i] # NL

\* C9: every chunk of chunkDiff is at most maxChunkSize long unless it is
\* one single line longer than maxChunkSize, and the chunks hold the lines
\* of the file blocks whole and in order: no line is split.
C9_ChunkWithinBudgetOrOneLine ==
    pc = "returned" =>
        /\ \A i \in 1..Len(ret) :
              \/ Len(ret[i]) <= arg.maxChunkSize
              \/ IsSingleLine(ret[i])
        /\ TrimmedLines(ret) = TrimmedLines(FileBlocks(arg.diff))

\* a file block over the budget is split at its lines: one chunk is a line
\* longer than the budget, another holds several lines within it
C9_Witness ==
    /\ pc = "returned"
    /\ \E i \in 1..Len(ret) : Len(ret[i]) > arg.maxChunkSize /\ IsSingleLine(ret[i])
    /\ \E i \in 1..Len(ret) : Len(ret[i]) <= arg.maxChunkSize /\ ~IsSingleLine(ret[i])
    /\ Len(getDiffSummary(arg.diff)) >= 2

NearEndHalf(lastNewline, start, maxDiffSize) ==
    2 * lastNewline > 2 * start + maxDiffSize

\* lastNewline > start + maxDiffSize * 0.8, in whole numbers: times five
NearEnd(lastNewline, start, maxDiffSize) ==
    5 * lastNewline > 5 * start + 4 * maxDiffSize

\* A loop that moves start to the end of the chunk it cut, with no overlap.
RECURSIVE ChunkStringLoopNoOverlap(_, _, _, _, _)
ChunkStringLoopNoOverlap(out, start, d, maxDiffSize, chunkOverlap) ==
    IF ~(start < Len(d)) THEN out
    ELSE LET window      == start + maxDiffSize
             lastNewline == LastIndexOf(d, NL, window)
             end         == IF window < Len(d) /\ NearEnd(lastNewline, start, maxDiffSize)
                            THEN lastNewline
                            ELSE window
         IN  ChunkStringLoopNoOverlap(Append(out, Slice(d, start, end)),
                                      MathMax(start + 1, end),
                                      d, maxDiffSize, chunkOverlap)

\* the while loop of chunkDiffString, from one value of start
RECURSIVE ChunkStringLoop(_, _, _, _, _)
ChunkStringLoop(out, start, d, maxDiffSize, chunkOverlap) ==
    IF ~(start < Len(d)) THEN out
    ELSE LET window      == start + maxDiffSize
             lastNewline == LastIndexOf(d, NL, window)
             end         == IF window < Len(d) /\ NearEnd(lastNewline, start, maxDiffSize)
                            THEN lastNewline
                            ELSE window
         IN  ChunkStringLoop(Append(out, Slice(d, start, end)),
                             MathMax(start + 1, end - chunkOverlap),
                             d, maxDiffSize, chunkOverlap)

\* the values start takes at the top of the while loop, one per chunk cut
RECURSIVE ChunkStarts(_, _, _, _, _)
ChunkStarts(out, start, d, maxDiffSize, chunkOverlap) ==
    IF ~(start < Len(d)) THEN out
    ELSE LET window      == start + maxDiffSize
             lastNewline == LastIndexOf(d, NL, window)
             end         == IF window < Len(d) /\ NearEnd(lastNewline, start, maxDiffSize)
                            THEN lastNewline
                            ELSE window
         IN  ChunkStarts(Append(out, start),
                         MathMax(start + 1, end - chunkOverlap),
                         d, maxDiffSize, chunkOverlap)

\* A chunker that returns the input whole only when it is strictly shorter
\* than the budget.
chunkDiffStringStrict(d, maxDiffSize, chunkOverlap) ==
    IF Len(d) < maxDiffSize THEN <<d>>
    ELSE ChunkStringLoop(<<>>, 0, d, maxDiffSize, chunkOverlap)

\* GitAnalyzer.chunkDiffString(diff, maxDiffSize, chunkOverlap)
chunkDiffString(d, maxDiffSize, chunkOverlap) ==
    IF Len(d) <= maxDiffSize THEN <<d>>
    ELSE ChunkStringLoop(<<>>, 0, d, maxDiffSize, chunkOverlap)

\* the while loop of AIGenerator.chunkDiff
RECURSIVE GeneratorChunkLoop(_, _, _, _, _)
GeneratorChunkLoop(out, start, d, maxSize, overlap) ==
    IF ~(start < Len(d)) THEN out
    ELSE LET window      == start + maxSize
             lastNewline == LastIndexOf(d, NL, window)
             end         == IF window < Len(d) /\ NearEnd(lastNewline, start, maxSize)
                            THEN lastNewline
                            ELSE window
         IN  GeneratorChunkLoop(Append(out, Slice(d, start, end)),
                                MathMax(start + 1, end - overlap),
                                d, maxSize, overlap)

\* AIGenerator.chunkDiff(diff), with config.options of the generator
generatorChunkDiff(d, options) ==
    IF Len(d) <= options.maxDiffSize THEN <<d>>
    ELSE GeneratorChunkLoop(<<>>, 0, d, options.maxDiffSize, options.chunkOverlap)

\* the strings under test: up to MaxStringLen characters of three
StringChars == {"a", "b", NL}
MaxStringLen == 5
\* the largest maxDiffSize and the largest chunkOverlap under test
MaxDiffSize == 6
MaxOverlap == 5

RECURSIVE Strings(_)
Strings(n) ==
    IF n = 0 THEN {<<>>}
    ELSE LET shorter == Strings(n - 1)
         IN  shorter \cup {Append(x, c) : x \in {y \in shorter : Len(y) = n - 1},
                                          c \in StringChars}

\* longer strings of lines: the character at index i is a line break or
\* the letter Letters[i % 3 + 1], so a text moved by one or two places differs
Letters == <<"a", "b", "c">>
MaxLinedLen == 8

RECURSIVE LinedStrings(_)
LinedStrings(n) ==
    IF n = 0 THEN {<<>>}
    ELSE LET shorter == LinedStrings(n - 1)
         IN  shorter \cup {Append(x, c) : x \in {y \in shorter : Len(y) = n - 1},
                                          c \in {NL, Letters[((n - 1) % 3) + 1]}}

ChunkerInputs == Strings(MaxStringLen) \cup LinedStrings(MaxLinedLen)

ChunkStringInit ==
    /\ pc = "chunkString"
    /\ \E d \in ChunkerInputs, m \in 1..MaxDiffSize, o \in 0..MaxOverlap :
          arg = [diff |-> d, maxDiffSize |-> m, chunkOverlap |-> o]
    /\ ret = <<>>
    /\ diff = [text |-> <<>>, ctx |-> 0]
    /\ hasKey = FALSE
    /\ chunks = <<>>
    /\ next = 1
    /\ chunkMessages = <<>>
    /\ calls = <<>>
    /\ outcome = NoOutcome
    /\ cursor = 0

RunChunkDiffString ==
    /\ pc = "chunkString"
    /\ ret' = chunkDiffString(arg.diff, arg.maxDiffSize, arg.chunkOverlap)
    /\ pc' = "analyzerReturned"
    /\ UNCHANGED <<diff, hasKey, chunks, next, chunkMessages, calls, outcome, arg, cursor>>

RunGeneratorChunkDiff ==
    /\ pc = "chunkString"
    /\ ret' = generatorChunkDiff(arg.diff, [maxDiffSize |-> arg.maxDiffSize,
                                            chunkOverlap |-> arg.chunkOverlap])
    /\ pc' = "generatorReturned"
    /\ UNCHANGED <<diff, hasKey, chunks, next, chunkMessages, calls, outcome, arg, cursor>>

ChunkStringNext == RunChunkDiffString \/ RunGeneratorChunkDiff

SpecChunkString == ChunkStringInit /\ [][ChunkStringNext]_vars

(***************************************************************************)
(* chunkDiffString run one loop iteration at a time: ret holds the chunks  *)
(* pushed so far and cursor the variable start.  The sizes under test      *)
(* include zero and a negative one, and overlaps at and above the budget.  *)
(***************************************************************************)
MaxStepLen == 6
MaxStepSize == 4
MaxStepOverlap == 5

ChunkStepsInit ==
    /\ pc = "chunkSteps"
    /\ \E d \in LinedStrings(MaxStepLen),
          m \in (-1)..MaxStepSize, o \in (-1)..MaxStepOverlap :
          arg = [diff |-> d, maxDiffSize |-> m, chunkOverlap |-> o]
    /\ ret = <<>>
    /\ cursor = 0
    /\ diff = [text |-> <<>>, ctx |-> 0]
    /\ hasKey = FALSE
    /\ chunks = <<>>
    /\ next = 1
    /\ chunkMessages = <<>>
    /\ calls = <<>>
    /\ outcome = NoOutcome

\* lines 275-281: the early return, or chunks = [] and start = 0
ChunkStringEnter ==
    /\ pc = "chunkSteps"
    /\ IF Len(arg.diff) <= arg.maxDiffSize
       THEN /\ ret' = <<arg.diff>>
            /\ pc' = "stepsReturned"
       ELSE /\ ret' = <<>>
            /\ pc' = "loop"
    /\ cursor' = 0
    /\ UNCHANGED <<diff, hasKey, chunks, next, chunkMessages, calls, outcome, arg>>

\* An iteration that moves start back by the overlap without the clamp.
ChunkStringStepNoClamp ==
    /\ pc = "loop"
    /\ cursor < Len(arg.diff)
    /\ LET window      == cursor + arg.maxDiffSize
           lastNewline == LastIndexOf(arg.diff, NL, window)
           end         == IF /\ window < Len(arg.diff)
                             /\ NearEnd(lastNewline, cursor, arg.maxDiffSize)
                          THEN lastNewline
                          ELSE window
       IN  /\ ret' = Append(ret, Slice(arg.diff, cursor, end))
           /\ cursor' = end - arg.chunkOverlap
    /\ UNCHANGED <<pc, diff, hasKey, chunks, next, chunkMessages, calls, outcome, arg>>

\* lines 283-299: one iteration of while (start < diff.length)
ChunkStringStep ==
    /\ pc = "loop"
    /\ cursor < Len(arg.diff)
    /\ LET window      == cursor + arg.maxDiffSize
           lastNewline == LastIndexOf(arg.diff, NL, window)
           end         == IF /\ window < Len(arg.diff)
                             /\ NearEnd(lastNewline, cursor, arg.maxDiffSize)
                          THEN lastNewline
                          ELSE window
       IN  /\ ret' = Append(ret, Slice(arg.diff, cursor, end))
           /\ cursor' = MathMax(cursor + 1, end - arg.chunkOverlap)
    /\ UNCHANGED <<pc, diff, hasKey, chunks, next, chunkMessages, calls, outcome, arg>>

\* lines 283, 301: the loop condition fails, return chunks
ChunkStringExit ==
    /\ pc = "loop"
    /\ ~(cursor < Len(arg.diff))
    /\ pc' = "stepsReturned"
    /\ UNCHANGED <<diff, hasKey, chunks, next, chunkMessages, calls, outcome, arg, ret,
                   cursor>>

ChunkStepsNext == ChunkStringEnter \/ ChunkStringStep \/ ChunkStringExit

\* the loop is synchronous code: an iteration that can run does run
SpecChunkSteps == ChunkStepsInit /\ [][ChunkStepsNext]_vars /\ WF_vars(ChunkStepsNext)

\* run step by step, the chunker returns what chunkDiffString returns
StepsReturnChunks ==
    pc = "stepsReturned"
        => ret = chunkDiffString(arg.diff, arg.maxDiffSize, arg.chunkOverlap)

\* C14: chunkDiffString terminates for every string, every maxDiffSize and
\* every chunkOverlap, those at and above maxDiffSize included: each loop
\* iteration raises start by at least 1, and the call returns.
C14_CursorAdvancesAndReturns ==
    /\ [][(pc = "loop" /\ pc' = "loop") => cursor' >= cursor + 1]_vars
    /\ <>(pc = "stepsReturned")

\* a call that returned after the loop ran with an overlap no smaller than
\* the budget: one chunk per character
C14_Witness ==
    /\ pc = "stepsReturned"
    /\ arg.maxDiffSize >= 1
    /\ arg.chunkOverlap >= arg.maxDiffSize
    /\ Len(arg.diff) >= 4
    /\ Len(ret) = Len(arg.diff)
    /\ cursor = Len(arg.diff)

\* C10: a string no longer than the chunk budget comes back from the
\* string chunker (either copy) as exactly one chunk, the string itself,
\* whatever the overlap.
C10_WithinBudgetIsOneChunk ==
    (pc \in {"analyzerReturned", "generatorReturned"} /\ Len(arg.diff) <= arg.maxDiffSize)
        => ret = <<arg.diff>>

\* a string exactly as long as the budget, with an overlap that would make
\* the loop cut a second chunk
C10_Witness ==
    /\ pc = "analyzerReturned"
    /\ Len(arg.diff) = arg.maxDiffSize
    /\ arg.maxDiffSize >= 3
    /\ arg.chunkOverlap >= 1
    /\ ret = <<arg.diff>>

\* the chunks put back together: the first chunk, then every later chunk
\* without its leading chunkOverlap characters
RECURSIVE Concat(_)
Concat(strs) == IF Len(strs) = 0 THEN <<>> ELSE Head(strs) \o Concat(Tail(strs))

Reassemble(chs, chunkOverlap) ==
    IF Len(chs) = 0 THEN <<>>
    ELSE chs[1] \o Concat([i \in 1..(Len(chs) - 1) |->
                               Slice(chs[i + 1], chunkOverlap, Len(chs[i + 1]))])

\* C12 as stated: for every string, every maxDiffSize >= 1 and every
\* chunkOverlap >= 0 the chunks of chunkDiffString put back together are
\* the string.
C12_RoundTripAnyOverlap ==
    pc = "analyzerReturned" => Reassemble(ret, arg.chunkOverlap) = arg.diff

\* C12: for every string, every maxDiffSize >= 1 and every chunkOverlap
\* from 0 to 80% of maxDiffSize, the first chunk of chunkDiffString
\* followed by every later chunk without its leading chunkOverlap
\* characters is the string.
C12_RoundTripSmallOverlap ==
    (pc = "analyzerReturned" /\ 5 * arg.chunkOverlap <= 4 * arg.maxDiffSize)
        => Reassemble(ret, arg.chunkOverlap) = arg.diff

\* three chunks or more with a real overlap, one of them cut back to a
\* line break
C12_Witness ==
    /\ pc = "analyzerReturned"
    /\ arg.chunkOverlap >= 1
    /\ 5 * arg.chunkOverlap <= 4 * arg.maxDiffSize
    /\ Len(ret) >= 3
    /\ Len(ret[1]) < arg.maxDiffSize
    /\ Reassemble(ret, arg.chunkOverlap) = arg.diff

\* where the chunks of an over-budget input start
Starts == ChunkStarts(<<>>, 0, arg.diff, arg.maxDiffSize, arg.chunkOverlap)

ChunkerReturned == pc \in {"analyzerReturned", "generatorReturned"}

\* chunk i + 1 starts chunkOverlap characters before the end of chunk i, and
\* the last chunkOverlap characters of chunk i are the first of chunk i + 1
SharesOverlap(starts, i) ==
    /\ starts[i + 1] = starts[i] + Len(ret[i]) - arg.chunkOverlap
    /\ Len(ret[i + 1]) >= arg.chunkOverlap
    /\ SubSeq(ret[i], Len(ret[i]) - arg.chunkOverlap + 1, Len(ret[i]))
           = SubSeq(ret[i + 1], 1, arg.chunkOverlap)

\* the chunks are the slices of the input at the loop's values of start
ChunksAtStarts(starts) ==
    /\ Len(starts) = Len(ret)
    /\ \A i \in 1..Len(ret) :
          ret[i] = Slice(arg.diff, starts[i], starts[i] + Len(ret[i]))

LateNewlines(from) ==
    {i \in 0..(Len(arg.diff) - 1) :
        /\ arg.diff[i + 1] = NL
        /\ 5 * i > 5 * from + 4 * arg.maxDiffSize
        /\ i <= from + arg.maxDiffSize}

\* where the rule puts the end of the chunk that starts at from
RuleEnd(from) ==
    LET late == LateNewlines(from)
    IN  IF from + arg.maxDiffSize < Len(arg.diff) /\ late # {}
        THEN CHOOSE i \in late : \A j \in late : j <= i
        ELSE from + arg.maxDiffSize

CommitParts(commit, maxChunkSize) ==
    IF Len(commit) > maxChunkSize THEN Split(commit, NL) ELSE <<commit>>

\* A loop body that flushes the current chunk even when it is empty.
ChunkPartStepNoGuard(st, part, maxChunkSize) ==
    LET partSize == Len(part) + 1
        flushed  == IF st.currentSize + partSize > maxChunkSize
                    THEN [chunks       |-> Append(st.chunks, st.currentChunk),
                          currentChunk |-> <<>>,
                          currentSize  |-> 0]
                    ELSE st
    IN  [flushed EXCEPT !.currentChunk = Append(@, part),
                        !.currentSize = @ + partSize]

\* the body of for (const part of commitParts)
ChunkPartStep(st, part, maxChunkSize) ==
    LET partSize == Len(part) + 1
        flushed  == IF /\ st.currentSize + partSize > maxChunkSize
                       /\ Len(st.currentChunk) > 0
                    THEN [chunks       |-> Append(st.chunks, st.currentChunk),
                          currentChunk |-> <<>>,
                          currentSize  |-> 0]
                    ELSE st
    IN  [flushed EXCEPT !.currentChunk = Append(@, part),
                        !.currentSize = @ + partSize]

RECURSIVE ChunkPartsLoop(_, _, _)
ChunkPartsLoop(st, parts, maxChunkSize) ==
    IF Len(parts) = 0 THEN st
    ELSE ChunkPartsLoop(ChunkPartStep(st, Head(parts), maxChunkSize),
                        Tail(parts), maxChunkSize)

\* for (const commit of commits)
RECURSIVE ChunkCommitsLoop(_, _, _)
ChunkCommitsLoop(st, commits, maxChunkSize) ==
    IF Len(commits) = 0 THEN st
    ELSE ChunkCommitsLoop(
             ChunkPartsLoop(st, CommitParts(Head(commits), maxChunkSize), maxChunkSize),
             Tail(commits), maxChunkSize)

\* chunkCommits(commits, maxChunkSize)
chunkCommits(commits, maxChunkSize) ==
    LET st == ChunkCommitsLoop([chunks |-> <<>>, currentChunk |-> <<>>, currentSize |-> 0],
                               commits, maxChunkSize)
    IN  IF Len(st.currentChunk) > 0 THEN Append(st.chunks, st.currentChunk)
        ELSE st.chunks

\* the commit texts under test
CommitTexts ==
    {<<>>,
     <<"a">>,
     <<"\n">>,
     <<"a", "b">>,
     <<"a", "\n", "b">>,
     <<"b", "\n">>,
     <<"\n", "\n">>,
     <<"a", "b", "\n", "b", "\n", "\n", "a">>}

MaxCommits == 3
MaxCommitBudget == 6

RECURSIVE CommitLists(_)
CommitLists(n) ==
    IF n = 0 THEN {<<>>}
    ELSE LET shorter == CommitLists(n - 1)
         IN  shorter \cup {Append(cs, c) : cs \in {x \in shorter : Len(x) = n - 1},
                                           c \in CommitTexts}

ChunkCommitsInit ==
    /\ pc = "chunkCommits"
    /\ \E cs \in CommitLists(MaxCommits), m \in 1..MaxCommitBudget :
          arg = [commits |-> cs, maxChunkSize |-> m]
    /\ ret = <<>>
    /\ cursor = 0
    /\ diff = [text |-> <<>>, ctx |-> 0]
    /\ hasKey = FALSE
    /\ chunks = <<>>
    /\ next = 1
    /\ chunkMessages = <<>>
    /\ calls = <<>>
    /\ outcome = NoOutcome

RunChunkCommits ==
    /\ pc = "chunkCommits"
    /\ ret' = chunkCommits(arg.commits, arg.maxChunkSize)
    /\ pc' = "commitsReturned"
    /\ UNCHANGED <<diff, hasKey, chunks, next, chunkMessages, calls, outcome, arg, cursor>>

SpecChunkCommits == ChunkCommitsInit /\ [][RunChunkCommits]_vars

\* the commits in input order, each one longer than the budget replaced by
\* its lines
ExpectedParts(commits, maxChunkSize) ==
    Concat([i \in 1..Len(commits) |->
               IF Len(commits[i]) > maxChunkSize
               THEN Split(commits[i], NL)
               ELSE <<commits[i]>>])

\* C16: for every commit list and every maxChunkSize >= 1 the chunks of
\* chunkCommits, flattened in order, are the input commits in input order
\* with each commit longer than maxChunkSize replaced by its lines; nothing
\* is lost, repeated or moved, and no chunk is empty.
C16_ChunksFlattenToCommits ==
    pc = "commitsReturned" =>
        /\ Concat(ret) = ExpectedParts(arg.commits, arg.maxChunkSize)
        /\ \A i \in 1..Len(ret) : Len(ret[i]) > 0

\* three commits, one of them split at its line breaks, in several chunks,
\* the first part alone being over the budget
C16_Witness ==
    /\ pc = "commitsReturned"
    /\ Len(arg.commits) = 3
    /\ Len(arg.commits[1]) > arg.maxChunkSize
    /\ Len(Split(arg.commits[1], NL)[1]) + 1 > arg.maxChunkSize
    /\ Len(Concat(ret)) > 3
    /\ Len(ret) >= 3
    /\ \E i \in 1..Len(ret) : Len(ret[i]) >= 2

(***************************************************************************)
(* getDiffSummary as a function of the raw diff.                           *)
(***************************************************************************)
HeaderY == HeaderHead \o <<"y">> \o HeaderMid \o <<"y">>
HeaderQuoted == <<"d", "i", "f", "f", " ", "-", "-", "g", "i", "t", " ", "\"", "a", "/", "x", " ", "y", "\"", " ", "\"", "b", "/", "x", " ", "y", "\"">>
LinePlus3 == <<"+", "+", "+", " ", "b", "/", "x">>
LineMinus3 == <<"-", "-", "-", " ", "a", "/", "x">>
LineHunk == <<"@", "@", " ", "-", "1", " ", "+", "1", " ", "@", "@">>
LineNewFile == NewFileMode \o <<" ", "1", "0", "0", "6", "4", "4">>
LineDeletedFile == DeletedFileMode \o <<" ", "1", "0", "0", "6", "4", "4">>
LineContext == <<" ", "c">>

SummaryLines ==
    {HeaderX, HeaderY, HeaderQuoted, LineAdd, LineDel, LinePlus3, LineMinus3, LineHunk,
     LineNewFile, LineDeletedFile, LineContext}

MaxSummaryLines == 4

RECURSIVE SummaryLineSeqs(_)
SummaryLineSeqs(n) ==
    IF n = 0 THEN {<<>>}
    ELSE LET shorter == SummaryLineSeqs(n - 1)
         IN  shorter \cup {Append(ls, l) : ls \in {x \in shorter : Len(x) = n - 1},
                                           l \in SummaryLines}

SummaryDiffs == {Join(ls, <<NL>>) : ls \in SummaryLineSeqs(MaxSummaryLines)}

DiffSummaryInit ==
    /\ pc = "getDiffSummary"
    /\ \E d \in SummaryDiffs : arg = [diff |-> d]
    /\ ret = <<>>
    /\ cursor = 0
    /\ diff = [text |-> <<>>, ctx |-> 0]
    /\ hasKey = FALSE
    /\ chunks = <<>>
    /\ next = 1
    /\ chunkMessages = <<>>
    /\ calls = <<>>
    /\ outcome = NoOutcome

RunGetDiffSummary ==
    /\ pc = "getDiffSummary"
    /\ ret' = getDiffSummary(arg.diff)
    /\ pc' = "summaryReturned"
    /\ UNCHANGED <<diff, hasKey, chunks, next, chunkMessages, calls, outcome, arg, cursor>>

SpecDiffSummary == DiffSummaryInit /\ [][RunGetDiffSummary]_vars

IsHeader(line) == StartsWith(line, DiffGitPrefix)
IsMatchingHeader(line) == IsHeader(line) /\ HeaderMatch(line).matched
IsUnmatchedHeader(line) == IsHeader(line) /\ ~HeaderMatch(line).matched

\* the header lines of a diff that match the header pattern, in order
MatchingHeaders(d) == SelectSeq(Split(d, NL), IsMatchingHeader)

\* C17 as stated: getDiffSummary returns one DiffFileChange per header line
\* that matches the header pattern, in order of appearance, and none for a
\* diff without a header.
C17_OneFilePerMatchingHeader ==
    pc = "summaryReturned" =>
        LET headers == MatchingHeaders(arg.diff)
        IN  /\ Len(ret) = Len(headers)
            /\ \A i \in 1..Len(ret) : ret[i].filename = HeaderMatch(headers[i]).name

\* how many of the lines of a text start with a given character
PrefixedLines(text, c) ==
    Len(SelectSeq(Split(text, NL), LAMBDA l : StartsWith(l, <<c>>)))

\* C18: in every DiffFileChange that getDiffSummary returns, additions is
\* the number of lines of its content that start with '+' and deletions
\* the number of those that start with '-'.
C18_CountsMatchContent ==
    pc = "summaryReturned" =>
        \A i \in 1..Len(ret) :
            /\ ret[i].additions = PrefixedLines(ret[i].content, "+")
            /\ ret[i].deletions = PrefixedLines(ret[i].content, "-")

\* a file with an added and a removed line, in a diff that also has a
\* '+++' or '---' marker line, which is neither counted nor kept
C18_Witness ==
    /\ pc = "summaryReturned"
    /\ \E i \in 1..Len(ret) : ret[i].additions >= 1 /\ ret[i].deletions >= 1
    /\ \E l \in {LinePlus3, LineMinus3} :
          \E k \in 1..Len(Split(arg.diff, NL)) : Split(arg.diff, NL)[k] = l

\* the lines of a diff without the sections whose header line does not
\* match the header pattern: skip is whether the section at hand is dropped
RECURSIVE WithoutUnmatched(_, _)
WithoutUnmatched(lines, skip) ==
    IF Len(lines) = 0 THEN <<>>
    ELSE LET line == Head(lines)
             drop == IF IsHeader(line) THEN IsUnmatchedHeader(line) ELSE skip
         IN  (IF drop THEN <<>> ELSE <<line>>) \o WithoutUnmatched(Tail(lines), drop)

\* C19 as stated: a file whose 'diff --git' header does not match the
\* header pattern is skipped: none of its lines reach any DiffFileChange and
\* the records of the other files are what they are without it.
C19_UnmatchedHeaderSkipsFile ==
    pc = "summaryReturned" =>
        ret = getDiffSummary(Join(WithoutUnmatched(Split(arg.diff, NL), FALSE), <<NL>>))

(***************************************************************************)
(* Prompt rendering: AIService.buildPrompt and the PR prompt of            *)
(* generatePRDescription (core/ai/index.ts).                               *)
(***************************************************************************)

\* What a replacement string stands for at one match: $$ is a dollar sign,
\* $& the matched text, $ and a backtick the text before the match, $' the
\* text after it; the patterns here have no capture group, so every other
\* $ stands for itself.
RECURSIVE GetSubstitution(_, _, _, _)
GetSubstitution(replacement, matched, before, after) ==
    IF Len(replacement) = 0 THEN <<>>
    ELSE IF replacement[1] = "$" /\ Len(replacement) >= 2
                /\ replacement[2] \in {"$", "&", Backtick, "'"}
    THEN (CASE replacement[2] = "$" -> <<"$">>
            [] replacement[2] = "&" -> matched
            [] replacement[2] = Backtick -> before
            [] replacement[2] = "'" -> after)
         \o GetSubstitution(Slice(replacement, 2, Len(replacement)), matched, before, after)
    ELSE <<replacement[1]>>
         \o GetSubstitution(Slice(replacement, 1, Len(replacement)), matched, before, after)

\* s.replace(new RegExp(pattern, "g"), replacement) for a pattern that is
\* literal text: every match from the left, the matches not overlapping,
\* the text put in not searched again; from is 0-based
RECURSIVE ReplaceAllFrom(_, _, _, _)
ReplaceAllFrom(s, pattern, replacement, from) ==
    IF from + Len(pattern) > Len(s) THEN Slice(s, from, Len(s))
    ELSE IF StartsWithAt(s, pattern, from)
    THEN GetSubstitution(replacement, pattern, Slice(s, 0, from),
                         Slice(s, from + Len(pattern), Len(s)))
         \o ReplaceAllFrom(s, pattern, replacement, from + Len(pattern))
    ELSE <<s[from + 1]>> \o ReplaceAllFrom(s, pattern, replacement, from + 1)

ReplaceAll(s, pattern, replacement) == ReplaceAllFrom(s, pattern, replacement, 0)

\* the first index (0-based) at or after from where pattern starts in s,
\* -1 when there is none
RECURSIVE IndexOfText(_, _, _)
IndexOfText(s, pattern, from) ==
    IF from + Len(pattern) > Len(s) THEN -1
    ELSE IF StartsWithAt(s, pattern, from) THEN from
    ELSE IndexOfText(s, pattern, from + 1)

\* s.replace(pattern, replacement) for a string pattern: the first
\* occurrence only
ReplaceFirst(s, pattern, replacement) ==
    LET i == IndexOfText(s, pattern, 0)
    IN  IF i = -1 THEN s
        ELSE Slice(s, 0, i)
             \o GetSubstitution(replacement, pattern, Slice(s, 0, i),
                                Slice(s, i + Len(pattern), Len(s)))
             \o Slice(s, i + Len(pattern), Len(s))

\* "{" + key + "}"
Placeholder(key) == <<"{">> \o key \o <<"}">>

\* buildPrompt(template, replacements): replacements is the sequence
\* Object.entries yields, [key, value] in insertion order
RECURSIVE buildPrompt(_, _)
buildPrompt(template, replacements) ==
    IF Len(replacements) = 0 THEN template
    ELSE buildPrompt(ReplaceAll(template, Placeholder(Head(replacements).key),
                                Head(replacements).value),
                     Tail(replacements))

KeyDiff == <<"d", "i", "f", "f">>
KeyNCommit == <<"n", "_", "c", "o", "m", "m", "i", "t">>
KeyMessages == <<"m", "e", "s", "s", "a", "g", "e", "s">>
KeyCommits == <<"c", "o", "m", "m", "i", "t", "s">>

\* generatePRDescription, lines 183-184: the prompt of the PR description
prPrompt(pr_prompt, commits) ==
    ReplaceFirst(pr_prompt, Placeholder(KeyCommits), Join(commits, <<NL>>))

\* DEFAULT_COMMIT_PROMPT and DEFAULT_MERGE_COMMIT_PROMPT: the placeholders
\* and the braces of the JSON schema in their order, each run of fixed
\* text in between cut down to a letter or a line break
DEFAULT_COMMIT_PROMPT ==
    <<"g", " ">> \o Placeholder(KeyNCommit) \o <<NL>> \o Placeholder(KeyDiff)
        \o <<NL, "r", " ">> \o Placeholder(KeyNCommit) \o <<NL, "{", "1", "}">>
DEFAULT_MERGE_COMMIT_PROMPT ==
    <<"c", " ">> \o Placeholder(KeyNCommit) \o <<NL>> \o Placeholder(KeyMessages)
        \o <<NL, "t", " ">> \o Placeholder(KeyNCommit)
        \o <<NL, "{">> \o Placeholder(KeyNCommit) \o <<"}">>
DefaultTemplates == {DEFAULT_COMMIT_PROMPT, DEFAULT_MERGE_COMMIT_PROMPT}

\* the templates under test: up to MaxTemplateTokens tokens
TemplateTokens ==
    {Placeholder(KeyDiff), Placeholder(KeyNCommit), Placeholder(KeyMessages),
     Placeholder(KeyCommits), <<"a", " ">>, <<"{">>}

MaxTemplateTokens == 3

RECURSIVE Templates(_)
Templates(n) ==
    IF n = 0 THEN {<<>>}
    ELSE {<<>>} \cup {tok \o tpl : tok \in TemplateTokens, tpl \in Templates(n - 1)}

\* the values under test: plain text, the empty text, replacement patterns,
\* text that holds a placeholder, and text that ends one
PromptValues ==
    {<<"v">>, <<>>, <<"$", "&">>, <<"$", "$">>, Placeholder(KeyNCommit),
     KeyNCommit \o <<"}">>}

CommitLogs == {<<>>, <<<<"c">>>>, <<<<"c">>, <<"d">>>>, <<<<"$", "'">>>>}

Entry(key, value) == [key |-> key, value |-> value]

\* the calls under test: the chunk prompt (lines 48-51, 103-106), the merge
\* prompt (70-72), the PR prompt (183-184), and buildPrompt with no entry
PromptCalls ==
    {[op |-> "none", template |-> tpl, replacements |-> <<>>, commits |-> <<>>] :
         tpl \in Templates(MaxTemplateTokens)}
    \cup
    {[op |-> "chunk", template |-> tpl,
      replacements |-> <<Entry(KeyDiff, v), Entry(KeyNCommit, n)>>, commits |-> <<>>] :
         tpl \in Templates(MaxTemplateTokens) \cup {DEFAULT_COMMIT_PROMPT},
         v \in PromptValues, n \in {<<"1">>, <<"3">>}}
    \cup
    {[op |-> "merge", template |-> tpl,
      replacements |-> <<Entry(KeyMessages, v)>>, commits |-> <<>>] :
         tpl \in Templates(MaxTemplateTokens) \cup {DEFAULT_MERGE_COMMIT_PROMPT},
         v \in PromptValues}
    \cup
    {[op |-> "pr", template |-> tpl, replacements |-> <<>>, commits |-> cs] :
         tpl \in Templates(MaxTemplateTokens), cs \in CommitLogs}

PromptInit ==
    /\ pc = "prompt"
    /\ arg \in PromptCalls
    /\ ret = <<>>
    /\ cursor = 0
    /\ diff = [text |-> <<>>, ctx |-> 0]
    /\ hasKey = FALSE
    /\ chunks = <<>>
    /\ next = 1
    /\ chunkMessages = <<>>
    /\ calls = <<>>
    /\ outcome = NoOutcome

RunBuildPrompt ==
    /\ pc = "prompt"
    /\ arg.op \in {"chunk", "merge", "none"}
    /\ ret' = buildPrompt(arg.template, arg.replacements)
    /\ pc' = "promptBuilt"
    /\ UNCHANGED <<diff, hasKey, chunks, next, chunkMessages, calls, outcome, arg, cursor>>

RunPrPrompt ==
    /\ pc = "prompt"
    /\ arg.op = "pr"
    /\ ret' = prPrompt(arg.template, arg.commits)
    /\ pc' = "promptBuilt"
    /\ UNCHANGED <<diff, hasKey, chunks, next, chunkMessages, calls, outcome, arg, cursor>>

PromptNext == RunBuildPrompt \/ RunPrPrompt

SpecPrompt == PromptInit /\ [][PromptNext]_vars

\* the variable map of a call: for the PR prompt, commits is the joined log
Variables ==
    IF arg.op = "pr" THEN <<Entry(KeyCommits, Join(arg.commits, <<NL>>))>>
    ELSE arg.replacements

\* the template with every occurrence of every placeholder of the map
\* replaced by its value, in one pass from the left; from is 0-based
RECURSIVE Rendered(_, _, _)
Rendered(template, variables, from) ==
    IF from >= Len(template) THEN <<>>
    ELSE LET hit == {i \in 1..Len(variables) :
                       StartsWithAt(template, Placeholder(variables[i].key), from)}
         IN  IF hit = {}
             THEN <<template[from + 1]>> \o Rendered(template, variables, from + 1)
             ELSE LET i == CHOOSE x \in hit : TRUE
                  IN  variables[i].value
                      \o Rendered(template, variables,
                                  from + Len(Placeholder(variables[i].key)))

\* a value of plain text: no replacement pattern and no brace in it
PlainValues ==
    \A i \in 1..Len(Variables) :
        \A k \in 1..Len(Variables[i].value) : Variables[i].value[k] \notin {"$", "{", "}"}

\* C20 as stated: with plain values, the rendered prompt has every
\* occurrence of {diff}, {n_commit} and {messages} (commit pipeline) and of
\* {commits} (PR prompt) replaced by the value, not only the first.
C20_EveryOccurrenceReplaced ==
    (pc = "promptBuilt" /\ PlainValues) => ret = Rendered(arg.template, Variables, 0)

\* C21 as stated: the prompt buildPrompt returns is the template with every
\* placeholder of the map replaced, all at once, by the value character for
\* character: a '$' in a value means nothing and inserted text is not
\* searched for another key's placeholder.
C21_LiteralSimultaneousSubstitution ==
    (pc = "promptBuilt" /\ arg.op # "pr")
        => ret = Rendered(arg.template, arg.replacements, 0)

\* the texts of a template between the occurrences of the placeholders of
\* the map, from the left; from is 0-based and acc the text at hand
RECURSIVE Segments(_, _, _, _)
Segments(template, variables, from, acc) ==
    IF from >= Len(template) THEN <<acc>>
    ELSE LET hit == {i \in 1..Len(variables) :
                       StartsWithAt(template, Placeholder(variables[i].key), from)}
         IN  IF hit = {}
             THEN Segments(template, variables, from + 1, Append(acc, template[from + 1]))
             ELSE LET i == CHOOSE x \in hit : TRUE
                  IN  <<acc>> \o Segments(template, variables,
                                          from + Len(Placeholder(variables[i].key)), <<>>)

\* text holds the segments in order, the first at its start and the last at
\* its end, whatever stands between them
RECURSIVE HoldsSegments(_, _, _)
HoldsSegments(text, segments, first) ==
    IF Len(segments) = 1
    THEN IF first THEN text = segments[1]
         ELSE /\ Len(segments[1]) <= Len(text)
              /\ Slice(text, Len(text) - Len(segments[1]), Len(text)) = segments[1]
    ELSE \E k \in 0..Len(text) :
            /\ first => k = 0
            /\ StartsWithAt(text, segments[1], k)
            /\ HoldsSegments(Slice(text, k + Len(segments[1]), Len(text)),
                             Tail(segments), FALSE)

\* C22 as stated: rendering changes nothing but the occurrences of {key}
\* for the keys of the map: the text of the template around them is in the
\* prompt as it was, so a template without such an occurrence, and any
\* template with an empty map, comes back unchanged.
C22_OnlyPlaceholdersChange ==
    (pc = "promptBuilt" /\ arg.op # "pr")
        => HoldsSegments(ret, Segments(arg.template, arg.replacements, 0, <<>>), TRUE)

\* the placeholders of the commit pipeline that a text still holds
LeftPlaceholders(text) ==
    {key \in {KeyDiff, KeyMessages, KeyNCommit} : IndexOfText(text, Placeholder(key), 0) >= 0}

\* C28: a chunk prompt built from DEFAULT_COMMIT_PROMPT and a merge prompt
\* built from DEFAULT_MERGE_COMMIT_PROMPT, with values that hold no '$' and
\* no brace, hold none of {diff}, {messages}, {n_commit}.
C28_DefaultPromptsFullyParameterized ==
    (pc = "promptBuilt" /\ arg.template \in DefaultTemplates /\ PlainValues)
        => LeftPlaceholders(ret) = {}

\* C29: handleLargeDiff issues the merge call only with at least one
\* partial result collected: the {messages} list of a merge call is never
\* empty.
C29_MergeOnlyWithPartialResults ==
    \A j \in 1..Len(calls) :
        calls[j].kind = "merge"
            => /\ Len(chunkMessages) >= 1
               /\ Len(calls[j].arg) >= 1

-----------------------------------------------------------------------------
\* AIProviderManager.getModel and the entry points of AIGenerator that
\* reach generateText through it.

ApiKeyNotFound == "API key not found for provider"
ProviderDisabled == "Provider is disabled"
UnsupportedProvider == "Unsupported provider"
ModelNotAvailable == "Model not available for provider"
UnknownModelWarning == "Unknown model for provider"
NoChunkProcessed == "Failed to process any chunks"

\* what a getModel call gives: a model, or the error it throws, and what
\* it wrote with Logger.warn
GotModel(warnings) == [ok |-> TRUE, error |-> "none", warnings |-> warnings]
NoModel(message) == [ok |-> FALSE, error |-> message, warnings |-> <<>>]

\* validateModel of the later variant: warns about a model that is
\* neither known nor custom, and allows it
validateModel(cfg) ==
    [valid |-> TRUE,
     warnings |-> IF cfg.modelKnown THEN <<>> ELSE <<UnknownModelWarning>>]

\* getModel without the API key check
getModelNoKeyCheck(cfg, key) ==
    IF ~cfg.enabled THEN NoModel(ProviderDisabled)
    ELSE IF ~cfg.providerKnown THEN NoModel(UnsupportedProvider)
    ELSE GotModel(validateModel(cfg).warnings)

\* getModel of the later variant (async, key from the credential store)
getModel(cfg, key) ==
    IF ~cfg.enabled THEN NoModel(ProviderDisabled)
    ELSE IF ~key THEN NoModel(ApiKeyNotFound)
    ELSE IF ~cfg.providerKnown THEN NoModel(UnsupportedProvider)
    ELSE GotModel(validateModel(cfg).warnings)

\* getModel of the earlier variant (sync, key in the provider config)
getModelEarlier(cfg, key) ==
    IF ~key THEN NoModel(ApiKeyNotFound)
    ELSE IF ~cfg.enabled THEN NoModel(ProviderDisabled)
    ELSE IF ~cfg.providerKnown THEN NoModel(UnsupportedProvider)
    ELSE IF ~cfg.modelKnown THEN NoModel(ModelNotAvailable)
    ELSE GotModel(<<>>)

\* providerManager.getModel as the generator of the given variant calls it
ProviderGetModel(cfg, key) ==
    IF cfg.variant = "earlier" THEN getModelEarlier(cfg, key) ELSE getModel(cfg, key)

\* the diff sizes and the chunking options of the generator under test
MaxGeneratorDiffLen == 6
GeneratorDiffSize == 2
GeneratorOptions == [maxDiffSize |-> GeneratorDiffSize, chunkOverlap |-> 0]
GeneratorDiffs == {[i \in 1..n |-> "a"] : n \in 0..MaxGeneratorDiffLen}

\* what generateText answers
GeneratorReplies == {ReplyText, ReplyPadded}

SummarySeparator == <<NL, NL, "-", "-", "-", NL, NL>>

\* the final prompt of generatePRDescription: the joined summaries (the
\* fixed sentences around them are left out)
CombinePrompt(summaries) == Join(summaries, SummarySeparator)

GeneratorInit ==
    /\ pc = "generatorStart"
    /\ \E d \in GeneratorDiffs : diff = [text |-> d, ctx |-> 0]
    /\ hasKey \in BOOLEAN
    /\ \E e \in {"commit", "pr"}, v \in {"earlier", "later"},
          en \in BOOLEAN, pk \in BOOLEAN, mk \in BOOLEAN :
          arg = [entry |-> e, variant |-> v, enabled |-> en,
                 providerKnown |-> pk, modelKnown |-> mk]
    /\ chunks = <<>>
    /\ next = 1
    /\ chunkMessages = <<>>
    /\ calls = <<>>
    /\ outcome = NoOutcome
    /\ ret = <<>>
    /\ cursor = 0

\* generateCommitMessage / generatePRDescription up to the branch on
\* chunks.length; the earlier generator sends the whole diff
GeneratorEnter ==
    /\ pc = "generatorStart"
    /\ chunks' = IF arg.variant = "earlier" THEN <<diff.text>>
                 ELSE generatorChunkDiff(diff.text, GeneratorOptions)
    /\ pc' = IF arg.entry = "pr" /\ Len(chunks') > 1 THEN "summaryLoop" ELSE "fromChunk"
    /\ UNCHANGED <<diff, hasKey, next, chunkMessages, calls, outcome, arg, ret, cursor>>

\* generateCommitMessageFromChunk / generatePRDescriptionFromChunk called
\* directly: getModel, then generateText
FromChunkCall ==
    /\ pc = "fromChunk"
    /\ LET model == ProviderGetModel(arg, hasKey)
       IN  /\ ret' = ret \o model.warnings
           /\ IF model.ok
              THEN /\ calls' = Append(calls, Call("single", chunks[1]))
                   /\ pc' = "awaitFromChunk"
                   /\ UNCHANGED outcome
              ELSE /\ outcome' = Threw(model.error)
                   /\ pc' = "generatorFailed"
                   /\ UNCHANGED calls
    /\ UNCHANGED <<diff, hasKey, chunks, next, chunkMessages, arg, cursor>>

FromChunkReply ==
    /\ pc = "awaitFromChunk"
    /\ \E text \in GeneratorReplies :
          /\ calls' = Settle(calls, "returned", text)
          /\ outcome' = Returned(<<Trim(text)>>)
    /\ pc' = "generatorDone"
    /\ UNCHANGED <<diff, hasKey, chunks, next, chunkMessages, arg, ret, cursor>>

FromChunkError ==
    /\ pc = "awaitFromChunk"
    /\ calls' = Settle(calls, "threw", <<>>)
    /\ outcome' = Threw("provider error")
    /\ pc' = "generatorFailed"
    /\ UNCHANGED <<diff, hasKey, chunks, next, chunkMessages, arg, ret, cursor>>

\* generatePRDescription, the loop body: generatePRDescriptionFromChunk
\* for the chunk the loop is at; an error of getModel is caught by the loop
ChunkSummaryCall ==
    /\ pc = "summaryLoop"
    /\ next <= Len(chunks)
    /\ LET model == ProviderGetModel(arg, hasKey)
       IN  /\ ret' = ret \o model.warnings
           /\ IF model.ok
              THEN /\ calls' = Append(calls, Call("summary", chunks[next]))
                   /\ pc' = "awaitSummary"
                   /\ UNCHANGED next
              ELSE /\ next' = next + 1
                   /\ UNCHANGED <<calls, pc>>
    /\ UNCHANGED <<diff, hasKey, chunks, chunkMessages, outcome, arg, cursor>>

\* ... the summary is pushed
ChunkSummaryReply ==
    /\ pc = "awaitSummary"
    /\ \E text \in GeneratorReplies :
          /\ calls' = Settle(calls, "returned", text)
          /\ chunkMessages' = Append(chunkMessages, Trim(text))
    /\ next' = next + 1
    /\ pc' = "summaryLoop"
    /\ UNCHANGED <<diff, hasKey, chunks, outcome, arg, ret, cursor>>

\* A loop whose catch block throws the error of the chunk again.
ChunkSummaryErrorEscapes ==
    /\ pc = "awaitSummary"
    /\ calls' = Settle(calls, "threw", <<>>)
    /\ outcome' = Threw("provider error")
    /\ pc' = "generatorFailed"
    /\ UNCHANGED <<diff, hasKey, chunks, next, chunkMessages, arg, ret, cursor>>

\* ... the catch block: log and continue with the other chunks
ChunkSummaryError ==
    /\ pc = "awaitSummary"
    /\ calls' = Settle(calls, "threw", <<>>)
    /\ next' = next + 1
    /\ pc' = "summaryLoop"
    /\ UNCHANGED <<diff, hasKey, chunks, chunkMessages, outcome, arg, ret, cursor>>

\* generatePRDescription after the loop: the throw for no summary, or
\* getModel and generateText for the final prompt
CombineCall ==
    /\ pc = "summaryLoop"
    /\ next > Len(chunks)
    /\ IF Len(chunkMessages) = 0
       THEN /\ outcome' = Threw(NoChunkProcessed)
            /\ pc' = "generatorFailed"
            /\ UNCHANGED <<calls, ret>>
       ELSE LET model == ProviderGetModel(arg, hasKey)
            IN  /\ ret' = ret \o model.warnings
                /\ IF model.ok
                   THEN /\ calls' = Append(calls, Call("combine", CombinePrompt(chunkMessages)))
                        /\ pc' = "awaitCombine"
                        /\ UNCHANGED outcome
                   ELSE /\ outcome' = Threw(model.error)
                        /\ pc' = "generatorFailed"
                        /\ UNCHANGED calls
    /\ UNCHANGED <<diff, hasKey, chunks, next, chunkMessages, arg, cursor>>

CombineReply ==
    /\ pc = "awaitCombine"
    /\ \E text \in GeneratorReplies :
          /\ calls' = Settle(calls, "returned", text)
          /\ outcome' = Returned(<<Trim(text)>>)
    /\ pc' = "generatorDone"
    /\ UNCHANGED <<diff, hasKey, chunks, next, chunkMessages, arg, ret, cursor>>

\* ... logged and thrown again
CombineError ==
    /\ pc = "awaitCombine"
    /\ calls' = Settle(calls, "threw", <<>>)
    /\ outcome' = Threw("provider error")
    /\ pc' = "generatorFailed"
    /\ UNCHANGED <<diff, hasKey, chunks, next, chunkMessages, arg, ret, cursor>>

GeneratorNext ==
    \/ GeneratorEnter
    \/ FromChunkCall
    \/ FromChunkReply
    \/ FromChunkError
    \/ ChunkSummaryCall
    \/ ChunkSummaryReply
    \/ ChunkSummaryError
    \/ CombineCall
    \/ CombineReply
    \/ CombineError

SpecGenerator == GeneratorInit /\ [][GeneratorNext]_vars

GeneratorEnded == pc \in {"generatorDone", "generatorFailed"}

\* C23: with the API key missing or the provider disabled, an entry point
\* of the generator issues no model call at any point of the invocation,
\* and when it ends it has thrown.
C23_NoCallWithoutKeyOrEnabledProvider ==
    (~hasKey \/ ~arg.enabled)
        => /\ calls = <<>>
           /\ GeneratorEnded => outcome.status = "error"

C23_Witness ==
    /\ pc = "generatorFailed"
    /\ hasKey /\ ~arg.enabled
    /\ arg.entry = "pr" /\ Len(chunks) > 1
    /\ calls = <<>>

\* C24: a request naming a model that is not in the known list of a
\* known, enabled provider with a key is not rejected by getModel: the
\* generation call is issued and a warning is logged.
C24_UnknownModelAllowedWithWarning ==
    (hasKey /\ arg.enabled /\ arg.providerKnown /\ ~arg.modelKnown /\ GeneratorEnded)
        => /\ calls # <<>>
           /\ outcome.error # ModelNotAvailable
           /\ UnknownModelWarning \in {ret[i] : i \in 1..Len(ret)}

\* the positions in calls of the calls of one kind
CallsOfKind(kind) == {i \in 1..Len(calls) : calls[i].kind = kind}

\* C25: for a diff of k > 1 chunks, generatePRDescription skips the chunks
\* whose summary call fails; the combine call is issued at most once, only
\* after all k chunks have been gone through with every chunk call settled
\* and at least one summary collected; when it returns, its trimmed text is
\* the result; with no summary collected the invocation throws 'Failed to
\* process any chunks' and issues no combine call.
C25_ChunkFailuresTolerated ==
    (arg.entry = "pr" /\ Len(chunks) > 1)
        => /\ Cardinality(CallsOfKind("combine")) <= 1
           /\ \A i \in CallsOfKind("combine") :
                 /\ i = Len(calls)
                 /\ next > Len(chunks)
                 /\ Len(chunkMessages) >= 1
                 /\ \A j \in 1..(i - 1) : calls[j].state # "pending"
                 /\ calls[i].arg = CombinePrompt(chunkMessages)
           /\ GeneratorEnded => next > Len(chunks)
           /\ (GeneratorEnded /\ Len(chunkMessages) >= 1)
                 => Cardinality(CallsOfKind("combine")) = 1
           /\ pc = "generatorDone"
                 => outcome = Returned(<<Trim(calls[Len(calls)].reply)>>)
           /\ (GeneratorEnded /\ Len(chunkMessages) = 0)
                 => /\ outcome = Threw(NoChunkProcessed)
                    /\ CallsOfKind("combine") = {}

C25_Witness ==
    /\ pc = "generatorDone"
    /\ arg.entry = "pr" /\ Len(chunks) = 3
    /\ Len(chunkMessages) = 1
    /\ calls[1].state = "threw" /\ calls[3].state = "threw"
    /\ Cardinality(CallsOfKind("combine")) = 1

-----------------------------------------------------------------------------
\* The commit commands: the interactive command over GitAnalyzer and
\* AIGenerator (cli/commands/commit.ts) and the command over GitService and
\* AIService (index.ts).

NoChangesDetected == "No changes detected in the repository."
NoStagedChanges == "No staged changes found."
StageFirst == "Please stage your changes first"
NoMeaningfulChanges == "No meaningful changes detected in staged files."
EmptyCommitMessage == "Empty commit message. Commit cancelled."
NoDefaultConfiguration == "No default configuration found."

\* the index and the work tree: the staged files with their diff, and the
\* files with changes that are not staged
HeaderW == HeaderHead \o <<"y">> \o HeaderMid \o <<"y">>
StagedFile == [files |-> <<"x">>, text |-> HeaderX \o <<NL>> \o LineAdd]
UnstagedFile == [files |-> <<"y">>, text |-> HeaderW \o <<NL>> \o LineAdd]
NoFile == [files |-> <<>>, text |-> <<>>]
Repositories ==
    {[staged |-> st, unstaged |-> un] : st \in {NoFile, StagedFile},
                                        un \in {NoFile, UnstagedFile}}

\* git add .
stageAll(repo) ==
    [staged |-> [files |-> repo.staged.files \o repo.unstaged.files,
                 text |-> Join(SelectSeq(<<repo.staged.text, repo.unstaged.text>>,
                                         LAMBDA x : Len(x) > 0), <<NL>>)],
     unstaged |-> NoFile]

\* GitAnalyzer.hasStagedChanges, hasChanges
hasStagedChanges(repo) == Len(repo.staged.files) > 0
hasChanges(repo) == Len(repo.staged.files) + Len(repo.unstaged.files) > 0

\* GitAnalyzer.getStagedChanges: the files of the status, the counts of the
\* staged diff and the staged diff (every file here adds one line)
getStagedChanges(repo) ==
    [files |-> repo.staged.files \o repo.unstaged.files,
     additions |-> Len(repo.staged.files),
     deletions |-> 0,
     diff |-> repo.staged.text]

DecimalDigits == <<"0", "1", "2", "3", "4", "5", "6", "7", "8", "9">>
\* `${n}` for a count below ten
NumberText(n) == <<DecimalDigits[n + 1]>>

\* GitAnalyzer.formatDiffForAI
formatDiffForAI(changeInfo) ==
    Join(<<<<"B", "r", "a", "n", "c", "h", ":", " ", "m", "a", "i", "n">>,
           <<"F", "i", "l", "e", "s", " ", "c", "h", "a", "n", "g", "e", "d", ":", " ">>
               \o NumberText(Len(changeInfo.files)),
           <<"A", "d", "d", "i", "t", "i", "o", "n", "s", ":", " ", "+">>
               \o NumberText(changeInfo.additions),
           <<"D", "e", "l", "e", "t", "i", "o", "n", "s", ":", " ", "-">>
               \o NumberText(changeInfo.deletions),
           <<>>,
           <<"M", "o", "d", "i", "f", "i", "e", "d", " ", "f", "i", "l", "e", "s", ":">>>>
         \o [i \in 1..Len(changeInfo.files) |-> <<"-", " ", changeInfo.files[i]>>]
         \o << <<>>,
               <<"G", "i", "t", " ", "d", "i", "f", "f", ":">>,
               changeInfo.diff>>,
         <<NL>>)

\* GitService.getStagedDiff
getStagedDiff(repo) == formatDiffForAI(getStagedChanges(repo))

\* chunks[0] of an empty array
Undefined == <<"undefined">>

\* !promise: validateProvider and validateModel of AIGenerator are async
\* and the command negates the promise, not its value
RejectsProvider(valid) == FALSE
RejectsModel(selectedModel, valid) == selectedModel /\ FALSE

\* the texts a generation resolves to and the texts an editor gives back
CommitReplies == {ReplyText, ReplyPadded}
EditedMessages == {<<>>, <<" ", NL>>, <<" ", "m", " ">>}

\* the choices of the action prompt of the interactive command
OfferedActions(options) ==
    LET chosen == (IF options.commit THEN {"commit"} ELSE {})
                      \cup (IF options.edit THEN {"edit"} ELSE {})
    IN  IF chosen = {} THEN {"commit", "edit", "copy", "show"} ELSE chosen

CommitInit ==
    /\ pc = "commandStart"
    /\ diff \in Repositories
    /\ \E c \in {"interactive", "service"}, sa \in BOOLEAN, oc \in BOOLEAN,
          oe \in BOOLEAN, oy \in BOOLEAN, hc \in BOOLEAN, mk \in BOOLEAN :
          arg = [command |-> c, stageAll |-> sa, commit |-> oc, edit |-> oe,
                 copy |-> oy, hasConfig |-> hc, modelKnown |-> mk]
    /\ hasKey = FALSE
    /\ chunks = <<>>
    /\ next = 1
    /\ chunkMessages = <<>>
    /\ calls = <<>>
    /\ outcome = NoOutcome
    /\ ret = <<>>
    /\ cursor = 0

\* commit.ts: --stage-all, the check for staged changes and the prompt to
\* stage them
CheckStagedChanges ==
    /\ pc = "commandStart"
    /\ arg.command = "interactive"
    /\ LET repo == IF arg.stageAll THEN stageAll(diff) ELSE diff
       IN  IF hasStagedChanges(repo)
           THEN /\ diff' = repo
                /\ pc' = "getStaged"
                /\ UNCHANGED ret
           ELSE IF ~hasChanges(repo)
           THEN /\ diff' = repo
                /\ ret' = Append(ret, NoChangesDetected)
                /\ pc' = "commandReturned"
           ELSE \E stageNow \in BOOLEAN :
                   IF ~stageNow
                   THEN /\ diff' = repo
                        /\ ret' = ret \o <<NoStagedChanges, StageFirst>>
                        /\ pc' = "commandReturned"
                   ELSE /\ diff' = stageAll(repo)
                        /\ ret' = Append(ret, NoStagedChanges)
                        /\ pc' = "getStaged"
    /\ UNCHANGED <<hasKey, chunks, next, chunkMessages, calls, outcome, arg, cursor>>

\* commit.ts: getStagedChanges, the check of the diff, the validation of
\* provider and model
GetStagedChanges ==
    /\ pc = "getStaged"
    /\ LET changeInfo == getStagedChanges(diff)
       IN  IF Len(Trim(changeInfo.diff)) = 0
           THEN /\ ret' = Append(ret, NoMeaningfulChanges)
                /\ pc' = "commandReturned"
                /\ UNCHANGED <<chunks, outcome>>
           ELSE IF RejectsProvider(TRUE) \/ RejectsModel(TRUE, arg.modelKnown)
           THEN /\ outcome' = Threw("Invalid provider or model")
                /\ pc' = "commandFailed"
                /\ UNCHANGED <<chunks, ret>>
           ELSE /\ chunks' = <<formatDiffForAI(changeInfo)>>
                /\ pc' = "generate"
                /\ UNCHANGED <<ret, outcome>>
    /\ UNCHANGED <<diff, hasKey, next, chunkMessages, calls, arg, cursor>>

\* commit.ts: generateCommitMessage / streamCommitMessage of AIGenerator
\* resolves to the message, or rejects
GenerateMessage ==
    /\ pc = "generate"
    /\ \/ \E text \in CommitReplies :
             /\ calls' = Append(calls, [Call("generator", chunks[1])
                                          EXCEPT !.state = "returned", !.reply = text])
             /\ outcome' = Returned(<<Trim(text)>>)
             /\ pc' = "chooseAction"
       \/ /\ calls' = Append(calls, [Call("generator", chunks[1]) EXCEPT !.state = "threw"])
          /\ outcome' = Threw("provider error")
          /\ pc' = "commandFailed"
    /\ UNCHANGED <<diff, hasKey, chunks, next, chunkMessages, arg, ret, cursor>>

\* A switch whose 'show' case falls into the commit.
ChooseActionShowCommits ==
    /\ pc = "chooseAction"
    /\ \E action \in OfferedActions(arg), editedMessage \in EditedMessages :
          /\ cursor' = CHOOSE i \in 1..4 : <<"commit", "edit", "copy", "show">>[i] = action
          /\ IF action \in {"commit", "show"}
             THEN /\ chunkMessages' = Append(chunkMessages, outcome.variations[1])
                  /\ UNCHANGED <<next, ret>>
             ELSE IF action = "edit"
             THEN /\ next' = Len(Trim(editedMessage))
                  /\ IF Len(Trim(editedMessage)) > 0
                     THEN /\ chunkMessages' = Append(chunkMessages, Trim(editedMessage))
                          /\ UNCHANGED ret
                     ELSE /\ ret' = Append(ret, EmptyCommitMessage)
                          /\ UNCHANGED chunkMessages
             ELSE UNCHANGED <<chunkMessages, next, ret>>
    /\ pc' = "commandReturned"
    /\ UNCHANGED <<diff, hasKey, chunks, calls, outcome, arg>>

\* commit.ts: the action prompt and the switch on the action; cursor keeps
\* the number of the chosen action and next the length of the trimmed
\* edited message
ChooseAction ==
    /\ pc = "chooseAction"
    /\ \E action \in OfferedActions(arg), editedMessage \in EditedMessages :
          /\ cursor' = CHOOSE i \in 1..4 : <<"commit", "edit", "copy", "show">>[i] = action
          /\ IF action = "commit"
             THEN /\ chunkMessages' = Append(chunkMessages, outcome.variations[1])
                  /\ UNCHANGED <<next, ret>>
             ELSE IF action = "edit"
             THEN /\ next' = Len(Trim(editedMessage))
                  /\ IF Len(Trim(editedMessage)) > 0
                     THEN /\ chunkMessages' = Append(chunkMessages, Trim(editedMessage))
                          /\ UNCHANGED ret
                     ELSE /\ ret' = Append(ret, EmptyCommitMessage)
                          /\ UNCHANGED chunkMessages
             ELSE UNCHANGED <<chunkMessages, next, ret>>
    /\ pc' = "commandReturned"
    /\ UNCHANGED <<diff, hasKey, chunks, calls, outcome, arg>>

\* index.ts: getStagedDiff and the check of its result, then the
\* resolution of the configuration
ServiceGetStagedDiff ==
    /\ pc = "commandStart"
    /\ arg.command = "service"
    /\ LET text == getStagedDiff(diff)
       IN  IF Len(text) = 0
           THEN /\ ret' = Append(ret, NoStagedChanges)
                /\ pc' = "commandReturned"
                /\ UNCHANGED <<chunks, outcome>>
           ELSE IF ~arg.hasConfig
           THEN /\ ret' = Append(ret, NoDefaultConfiguration)
                /\ outcome' = Threw("exit 1")
                /\ pc' = "commandFailed"
                /\ UNCHANGED chunks
           ELSE /\ chunks' = chunkDiff(text, MaxChunkSize)
                /\ pc' = "serviceGenerate"
                /\ UNCHANGED <<ret, outcome>>
    /\ UNCHANGED <<diff, hasKey, next, chunkMessages, calls, arg, cursor>>

\* index.ts: AIService.generateCommitMessage(chunks[0], ...) resolves to a
\* message, or rejects; for an undefined diff it can only reject (the
\* missing key, or diff.length of undefined)
ServiceGenerate ==
    /\ pc = "serviceGenerate"
    /\ LET first == IF Len(chunks) = 0 THEN Undefined ELSE chunks[1]
       IN  \/ \E text \in CommitReplies :
                /\ Len(chunks) > 0
                /\ calls' = Append(calls, [Call("service", first)
                                             EXCEPT !.state = "returned", !.reply = text])
                /\ outcome' = Returned(<<Trim(text)>>)
                /\ pc' = "serviceAction"
           \/ /\ calls' = Append(calls, [Call("service", first) EXCEPT !.state = "threw"])
              /\ outcome' = Threw("provider error")
              /\ pc' = "commandFailed"
    /\ UNCHANGED <<diff, hasKey, chunks, next, chunkMessages, arg, ret, cursor>>

\* index.ts: --copy, --commit or the action prompt, and the switch
ServiceAction ==
    /\ pc = "serviceAction"
    /\ \E answer \in {"commit", "copy"} :
          LET action == IF arg.copy THEN "copy" ELSE IF arg.commit THEN "commit" ELSE answer
          IN  /\ cursor' = IF action = "commit" THEN 1 ELSE 3
              /\ chunkMessages' = IF action = "commit"
                                  THEN Append(chunkMessages, outcome.variations[1])
                                  ELSE chunkMessages
    /\ pc' = "commandReturned"
    /\ UNCHANGED <<diff, hasKey, chunks, next, calls, outcome, arg, ret>>

CommitNext ==
    \/ CheckStagedChanges
    \/ GetStagedChanges
    \/ GenerateMessage
    \/ ChooseAction
    \/ ServiceGetStagedDiff
    \/ ServiceGenerate
    \/ ServiceAction

SpecCommit == CommitInit /\ [][CommitNext]_vars

\* the number of the action of the prompt
ActionNumber(action) == CHOOSE i \in 1..4 : <<"commit", "edit", "copy", "show">>[i] = action

\* C26: the interactive command creates a commit only for the action
\* 'commit', or for 'edit' with an edited message that is not empty after
\* trimming, and then exactly one; 'show', 'copy' and an empty edited
\* message create none, and no commit exists before the action is chosen.
C26_CommitOnlyOnCommitOrNonEmptyEdit ==
    arg.command = "interactive"
        => /\ Len(chunkMessages) <= 1
           /\ Len(chunkMessages) = 1
                 => /\ pc = "commandReturned"
                    /\ \/ cursor = ActionNumber("commit")
                       \/ cursor = ActionNumber("edit") /\ next > 0
           /\ (pc = "commandReturned" /\ cursor \in {ActionNumber("show"), ActionNumber("copy")})
                 => chunkMessages = <<>>
           /\ (pc = "commandReturned" /\ cursor = ActionNumber("edit") /\ next = 0)
                 => /\ chunkMessages = <<>>
                    /\ ret[Len(ret)] = EmptyCommitMessage

C26_Witness ==
    /\ arg.command = "interactive"
    /\ pc = "commandReturned"
    /\ cursor = ActionNumber("edit")
    /\ chunkMessages = << <<"m">> >>

\* C27: with nothing staged the command over GitService prints 'No staged
\* changes found.' and returns without a call of the AI service.
C27_NothingStagedNoServiceCall ==
    (arg.command = "service" /\ ~hasStagedChanges(diff))
        => /\ calls = <<>>
           /\ pc # "commandStart" => (pc = "commandReturned" /\ ret = <<NoStagedChanges>>)

-----------------------------------------------------------------------------
\* gitvibe init: the credential store (one key per provider), the
\* configuration store (the 'default' configuration) and the default-name
\* pointer.

InitProviders == {"groq", "openai"}
NoKey == "none"

\* ConfigManager.setApiKey, deleteApiKey, saveConfig('default', ...),
\* setDefaultConfigName
setApiKey(stores, provider, key) == [stores EXCEPT !.keys[provider] = key]
deleteApiKey(stores, provider) == [stores EXCEPT !.keys[provider] = NoKey]
saveConfig(stores, config) == [stores EXCEPT !.default = config]
setDefaultConfigName(stores, name) == [stores EXCEPT !.defaultName = name]

\* the stores a run of init can find
InitStores ==
    {[keys |-> ks, default |-> cfg, defaultName |-> dn] :
         ks \in [InitProviders -> {NoKey, "old key"}],
         cfg \in {"none", "old configuration"},
         dn \in {"none", "default", "work"}}

InitCommandInit ==
    /\ pc = "initStart"
    /\ \E st \in InitStores, v \in {"earlier", "later"} :
          /\ ret = st
          /\ arg = [variant |-> v, before |-> st, provider |-> "none"]
    /\ diff = [text |-> <<>>, ctx |-> 0]
    /\ hasKey = FALSE
    /\ chunks = <<>>
    /\ next = 1
    /\ chunkMessages = <<>>
    /\ calls = <<>>
    /\ outcome = NoOutcome
    /\ cursor = 0

\* initCommand: the prompts (provider, existing key or a new one, model)
\* and the store of the API key; the earlier variant always asks for a key
InitStoreApiKey ==
    /\ pc = "initStart"
    /\ \E provider \in InitProviders, action \in {"use", "new"} :
          LET existingApiKey == ret.keys[provider]
              useExisting == arg.variant = "later" /\ existingApiKey # NoKey /\ action = "use"
              apiKey == IF useExisting THEN existingApiKey ELSE "new key"
          IN  /\ ret' = setApiKey(ret, provider, apiKey)
              /\ arg' = [arg EXCEPT !.provider = provider]
    /\ pc' = "initSave"
    /\ UNCHANGED <<diff, hasKey, chunks, next, chunkMessages, calls, outcome, cursor>>

\* initCommand: saveConfig("default", config), setDefaultConfigName("default")
InitSaveConfig ==
    /\ pc = "initSave"
    /\ ret' = setDefaultConfigName(saveConfig(ret, "new configuration"), "default")
    /\ pc' = "initTest"
    /\ UNCHANGED <<diff, hasKey, chunks, next, chunkMessages, calls, outcome, arg, cursor>>

\* initCommand: AIService.testConnection(config) resolves to true
InitTestSucceeds ==
    /\ pc = "initTest"
    /\ outcome' = Returned(<<>>)
    /\ pc' = "initDone"
    /\ UNCHANGED <<diff, hasKey, chunks, next, chunkMessages, calls, arg, ret, cursor>>

\* initCommand: AIService.testConnection(config) resolves to false:
\* deleteApiKey(provider), process.exit(1)
InitTestFails ==
    /\ pc = "initTest"
    /\ ret' = deleteApiKey(ret, arg.provider)
    /\ outcome' = Threw("exit 1")
    /\ pc' = "initFailed"
    /\ UNCHANGED <<diff, hasKey, chunks, next, chunkMessages, calls, arg, cursor>>

InitCommandNext ==
    \/ InitStoreApiKey
    \/ InitSaveConfig
    \/ InitTestSucceeds
    \/ InitTestFails

SpecInitCommand == InitCommandInit /\ [][InitCommandNext]_vars

\* C30: after a run of init whose connection test failed, the credential
\* store, the 'default' configuration and the default-name pointer are what
\* they were before the run.
C30_FailedInitLeavesStoresUnchanged ==
    pc = "initFailed" => ret = arg.before

=============================================================================
